---- MODULE Spec2Model ----
(***************************************************************************)
(* A model of package httpapi (github.com/jjeffery/httpapi):               *)
(*   - the query-string reader (query.go): Query, the Lookup/Get typed     *)
(*     accessors, and Err;                                                 *)
(*   - the payload buffer's bounded read (rawdata.go): rawData.ReadRequest;*)
(*   - the error writer (rawdata.go, WriteError) with the writeerror       *)
(*     configuration callbacks (unnamed/part_003).                         *)
(* Strings that the code parses are sequences of one-character strings, so *)
(* that the parsers are computed character by character.                   *)
(***************************************************************************)
EXTENDS Integers, Sequences, FiniteSets, TLC

(***************************************************************************)
(* Bounds of the model.                                                    *)
(***************************************************************************)
\* Longest enumerated query string, in name=value pairs.
MaxPairs == 2
\* Most accessor calls made on one Values instance.
MaxCalls == 3

(***************************************************************************)
(* The state: the query reader's, the bounded read's, the error writer's.  *)
(***************************************************************************)
VARIABLES
  qpc,            \* "new" until Query(r) has built the Values, then "ready"
  values,         \* Values.values: name -> the values given, in order
  invalidParams,  \* Values.invalidParams
  last,           \* the last accessor call and what it returned
  errRet,         \* what the last call of Err() returned
  errFresh,       \* no accessor has been called since that call of Err()
  ncalls,         \* accessor calls made so far
  failedOnce,     \* names for which some accessor call hit a parse failure
  failedTwice     \* names for which two or more calls did

qvars ==
  <<qpc, values, invalidParams, last, errRet, errFresh, ncalls, failedOnce,
    failedTwice>>

VARIABLES
  maxRequestLen,  \* the package variable maxRequestLen
  rpc,            \* where ReadRequest is: "idle", "readfull", "readall", "done"
  req,            \* the request's headers
  bodyData,       \* the bytes the body stream has yet to deliver
  bodyTail,       \* what the stream does after them: "eof", "err" or "inf"
  bodyReads,      \* Read calls made on the body stream
  bodyTaken,      \* bytes taken from the body stream
  want,           \* len(buf) of the io.ReadFull branch
  limN,           \* LimitedReader.N of the ioutil.ReadAll branch
  buf,            \* the bytes read so far
  data,           \* the rawData
  rret,           \* what rawData.ReadRequest returned
  fret            \* what the ReadRequest facade returned

rvars ==
  <<maxRequestLen, rpc, req, bodyData, bodyTail, bodyReads, bodyTaken, want,
    limN, buf, data, rret, fret>>

VARIABLES
  wpc,         \* "idle" until WriteError has run, then "done"
  werr,        \* the error WriteError was given
  wreq,        \* the request: its context's Config and what callbacks read
  resp,        \* the response writer: headers, status, body, calls in order
  marshalled,  \* the Content the marshaller was given, as it was then
  notified     \* the Content the post-write notifier was given

wvars == <<wpc, werr, wreq, resp, marshalled, notified>>

VARIABLES
  bpc,      \* "new" until a buffer or a response value is chosen
  bdata,    \* the rawData the buffer operations act on
  bbefore,  \* the rawData as it was before the last operation
  bop,      \* the last operation: its name, what it returned
  baccept,  \* the Accept-Encoding header of the request
  bw,       \* the response writer rawData.WriteResponse wrote to
  fres,     \* what the WriteResponse facade did
  bn        \* operations made on the buffer

bvars == <<bpc, bdata, bbefore, bop, baccept, bw, fres, bn>>

VARIABLES
  spc,      \* "new" until the stack is created, then the step reached
  heap,     \* the Stack values allocated
  stk,      \* the *Stack s
  derived,  \* the *Stack that s.Use returned
  used,     \* the functions given to Use and then to s.Use, in order
  built,    \* the handler built from s
  rebuilt,  \* the handler built from s after s.Use
  served    \* the calls made, in order, while the handler served a request

svars == <<spc, heap, stk, derived, used, built, rebuilt, served>>

vars == <<qvars, rvars, wvars, bvars, svars>>

(***************************************************************************)
(* Character strings.                                                      *)
(***************************************************************************)
Digits == {"0", "1", "2", "3", "4", "5", "6", "7", "8", "9"}

DigitVal ==
  "0" :> 0 @@ "1" :> 1 @@ "2" :> 2 @@ "3" :> 3 @@ "4" :> 4 @@
  "5" :> 5 @@ "6" :> 6 @@ "7" :> 7 @@ "8" :> 8 @@ "9" :> 9

UpperChars ==
  <<"A", "B", "C", "D", "E", "F", "G", "H", "I", "J", "K", "L", "M",
    "N", "O", "P", "Q", "R", "S", "T", "U", "V", "W", "X", "Y", "Z">>

LowerChars ==
  <<"a", "b", "c", "d", "e", "f", "g", "h", "i", "j", "k", "l", "m",
    "n", "o", "p", "q", "r", "s", "t", "u", "v", "w", "x", "y", "z">>

WhiteSpace == {" ", "\t", "\n", "\r"}

\* strings.ToLower, one character at a time.
ToLowerChar(c) ==
  IF \E i \in 1..Len(UpperChars) : UpperChars[i] = c
  THEN LowerChars[CHOOSE i \in 1..Len(UpperChars) : UpperChars[i] = c]
  ELSE c

ToLower(s) == [i \in 1..Len(s) |-> ToLowerChar(s[i])]

\* strings.TrimSpace: drop the leading and the trailing white space.
TrimSpace(s) ==
  LET keep == {i \in 1..Len(s) : s[i] \notin WhiteSpace}
  IN  IF keep = {} THEN <<>>
      ELSE LET lo == CHOOSE i \in keep : \A j \in keep : i <= j
               hi == CHOOSE i \in keep : \A j \in keep : j <= i
           IN  SubSeq(s, lo, hi)

AllDigits(s) == \A i \in 1..Len(s) : s[i] \in Digits

\* The largest value the decimal accumulator keeps exactly; a numeral at or
\* above it is kept as SatCap (every use below compares against much smaller
\* numbers, and 10 * SatCap + 9 still fits the checker's integers).
SatCap == 100000000

RECURSIVE DecimalValue(_)
DecimalValue(s) ==
  IF s = <<>> THEN 0
  ELSE LET hi == DecimalValue(SubSeq(s, 1, Len(s) - 1))
           n  == 10 * hi + DigitVal[s[Len(s)]]
       IN  IF n > SatCap THEN SatCap ELSE n

\* The digits of 2^63 - 1 and of 2^63: the int64 range strconv enforces.
MaxInt64Digits ==
  <<"9", "2", "2", "3", "3", "7", "2", "0", "3", "6",
    "8", "5", "4", "7", "7", "5", "8", "0", "7">>

MinInt64Digits ==
  <<"9", "2", "2", "3", "3", "7", "2", "0", "3", "6",
    "8", "5", "4", "7", "7", "5", "8", "0", "8">>

RECURSIVE StripZeros(_)
StripZeros(s) ==
  IF s # <<>> /\ Head(s) = "0" THEN StripZeros(Tail(s)) ELSE s

\* a <= b for numerals without leading zeros.
NumeralLeq(a, b) ==
  \/ Len(a) < Len(b)
  \/ /\ Len(a) = Len(b)
     /\ \/ a = b
        \/ \E i \in 1..Len(a) :
             /\ \A j \in 1..(i - 1) : a[j] = b[j]
             /\ DigitVal[a[i]] < DigitVal[b[i]]

\* strconv.ParseInt(s, 10, 64), which strconv.Atoi(s) equals on a 64-bit
\* build: an optional sign, then one or more decimal digits, in int64 range.
ParseInt(s) ==
  LET signed == s # <<>> /\ Head(s) \in {"+", "-"}
      neg    == s # <<>> /\ Head(s) = "-"
      body   == IF signed THEN Tail(s) ELSE s
      sig    == StripZeros(body)
  IN  IF body = <<>> \/ ~AllDigits(body)
      THEN [err |-> "syntax", n |-> 0]
      ELSE IF ~NumeralLeq(sig, IF neg THEN MinInt64Digits ELSE MaxInt64Digits)
      THEN [err |-> "range", n |-> 0]
      ELSE [err |-> "nil",
            n   |-> IF neg THEN 0 - DecimalValue(body) ELSE DecimalValue(body)]

Atoi(s) == ParseInt(s)

(***************************************************************************)
(* Times and dates.                                                        *)
(***************************************************************************)
IsLeap(y) == (y % 4 = 0 /\ y % 100 # 0) \/ y % 400 = 0

DaysIn(y, m) ==
  IF m = 2 THEN (IF IsLeap(y) THEN 29 ELSE 28)
  ELSE IF m \in {4, 6, 9, 11} THEN 30 ELSE 31

\* time.Time{} and local.Date{}: midnight UTC on 1 January of year 1.
ZeroTime ==
  [year |-> 1, month |-> 1, day |-> 1, hour |-> 0, min |-> 0, sec |-> 0,
   nsec |-> 0, offset |-> 0]

ZeroDate == [year |-> 1, month |-> 1, day |-> 1]

\* The fixed-width number at s[i..j], or -1 when a character is no digit.
Field(s, i, j) ==
  IF j <= Len(s) /\ AllDigits(SubSeq(s, i, j))
  THEN DecimalValue(SubSeq(s, i, j)) ELSE -1

\* A fraction of a second, as nanoseconds: the first nine digits, padded.
RECURSIVE Nanos(_, _)
Nanos(ds, width) ==
  IF width = 0 THEN 0
  ELSE (IF ds = <<>> THEN 0 ELSE DigitVal[Head(ds)])
         * (10 ^ (width - 1))
       + Nanos(IF ds = <<>> THEN <<>> ELSE Tail(ds), width - 1)

\* The zone at the end of a timestamp: "Z", or a sign, HH, ":", MM.
\* The offset is in minutes; -1 in ok marks a malformed zone.
ParseZone(z) ==
  IF z = <<"Z">> THEN [ok |-> TRUE, offset |-> 0]
  ELSE IF /\ Len(z) = 6
          /\ z[1] \in {"+", "-"}
          /\ z[4] = ":"
          /\ Field(z, 2, 3) \in 0..23
          /\ Field(z, 5, 6) \in 0..59
       THEN [ok |-> TRUE,
             offset |-> (IF z[1] = "-" THEN -1 ELSE 1)
                          * (60 * Field(z, 2, 3) + Field(z, 5, 6))]
       ELSE [ok |-> FALSE, offset |-> 0]

\* time.Parse with an RFC 3339 layout: YYYY-MM-DDTHH:MM:SS, an optional
\* fraction of a second, and a zone.  The fraction is accepted whether or
\* not the layout names one, so time.RFC3339Nano and time.RFC3339 accept
\* the same strings.
ParseRFC3339(s) ==
  LET bad     == [err |-> "parse", t |-> ZeroTime]
      y       == Field(s, 1, 4)
      mo      == Field(s, 6, 7)
      d       == Field(s, 9, 10)
      h       == Field(s, 12, 13)
      mi      == Field(s, 15, 16)
      se      == Field(s, 18, 19)
      rest    == SubSeq(s, 20, Len(s))
      hasFrac == Len(rest) >= 2 /\ rest[1] \in {".", ","} /\ rest[2] \in Digits
      fracEnd == IF hasFrac
                 THEN CHOOSE k \in 2..Len(rest) :
                        /\ \A j \in 2..k : rest[j] \in Digits
                        /\ (k = Len(rest) \/ rest[k + 1] \notin Digits)
                 ELSE 0
      frac    == SubSeq(rest, 2, fracEnd)
      zone    == ParseZone(SubSeq(rest, fracEnd + 1, Len(rest)))
  IN  IF \/ Len(s) < 20
         \/ s[5] # "-" \/ s[8] # "-" \/ s[11] # "T"
         \/ s[14] # ":" \/ s[17] # ":"
         \/ y < 0
         \/ mo \notin 1..12
         \/ h \notin 0..23 \/ mi \notin 0..59 \/ se \notin 0..59
         \/ ~zone.ok
      THEN bad
      ELSE IF d \notin 1..DaysIn(y, mo) THEN bad
      ELSE [err |-> "nil",
            t   |-> [year |-> y, month |-> mo, day |-> d, hour |-> h,
                     min |-> mi, sec |-> se, nsec |-> Nanos(frac, 9),
                     offset |-> zone.offset]]

RFC3339 == "2006-01-02T15:04:05Z07:00"
RFC3339Nano == "2006-01-02T15:04:05.999999999Z07:00"

\* time.Parse(layout, s) for the two layouts the package uses.
TimeParse(layout, s) == ParseRFC3339(s)

\* local.DateParse: an ISO 8601 calendar date, YYYY-MM-DD or YYYYMMDD.
DateParse(s) ==
  LET bad == [err |-> "parse", d |-> ZeroDate]
      ext == Len(s) = 10 /\ s[5] = "-" /\ s[8] = "-"
      y   == Field(s, 1, 4)
      mo  == IF ext THEN Field(s, 6, 7) ELSE Field(s, 5, 6)
      d   == IF ext THEN Field(s, 9, 10) ELSE Field(s, 7, 8)
  IN  IF ~(ext \/ Len(s) = 8) \/ y < 0 \/ mo \notin 1..12 THEN bad
      ELSE IF d \notin 1..DaysIn(y, mo) THEN bad
      ELSE [err |-> "nil", d |-> [year |-> y, month |-> mo, day |-> d]]

(***************************************************************************)
(* Errors of package errkind, as far as this package looks at them: the    *)
(* text of Error(), the status of StatusCode(), the code of Code(), the    *)
(* text of Message() when the error has that method, the three marker      *)
(* methods PublicStatusCode / PublicMessage / PublicCode, and the error it *)
(* wraps (errors.Cause follows `cause` to the innermost error).            *)
(***************************************************************************)
NilError == [kind |-> "nil"]

\* errkind.Public(msg, status)
Public(msg, status) ==
  [kind |-> "error", text |-> msg, status |-> status, code |-> "",
   hasMessage |-> TRUE, message |-> msg,
   publicStatus |-> TRUE, publicMessage |-> TRUE, publicCode |-> TRUE,
   cause |-> NilError]

StatusBadRequest == 400
StatusRequestEntityTooLarge == 413
StatusInternalServerError == 500
StatusNoContent == 204

\* errkind.BadRequest(msg)
BadRequest(msg) == Public(msg, StatusBadRequest)

(***************************************************************************)
(* The query-string reader (query.go).                                     *)
(***************************************************************************)

EmptyMap == [n \in {} |-> <<>>]

\* url.ParseQuery on a query that is already split into (name, value)
\* pairs: each value is appended to the list of its name.
RECURSIVE ParseQuery(_)
ParseQuery(pairs) ==
  IF pairs = <<>> THEN EmptyMap
  ELSE LET m == ParseQuery(SubSeq(pairs, 1, Len(pairs) - 1))
           p == pairs[Len(pairs)]
       IN  [n \in DOMAIN m \cup {p[1]} |->
              IF n \notin DOMAIN m THEN <<p[2]>>
              ELSE IF n = p[1] THEN Append(m[n], p[2]) ELSE m[n]]

\* url.Values.Get: the first value of the name, "" when there is none.
Get(vals, name) ==
  IF name \notin DOMAIN vals \/ Len(vals[name]) = 0 THEN <<>>
  ELSE vals[name][1]

\* stringset.Set.Add
Add(v, name) == [v EXCEPT !.invalidParams = @ \cup {name}]

exists(v, name) == name \in DOMAIN v.values

Absentish == {<<>>,
              <<"u", "n", "d", "e", "f", "i", "n", "e", "d">>,
              <<"n", "u", "l", "l">>}

parseTime(v, name) ==
  IF ~exists(v, name) THEN [v |-> v, val |-> ZeroTime, ok |-> FALSE]
  ELSE LET s == TrimSpace(Get(v.values, name))
       IN  IF s \in Absentish THEN [v |-> v, val |-> ZeroTime, ok |-> FALSE]
           ELSE LET nano  == TimeParse(RFC3339Nano, s)
                    plain == TimeParse(RFC3339, s)
                IN  IF nano.err # "nil"
                    THEN IF plain.err # "nil"
                         THEN [v |-> Add(v, name), val |-> ZeroTime, ok |-> FALSE]
                         ELSE [v |-> v, val |-> plain.t, ok |-> TRUE]
                    ELSE [v |-> v, val |-> nano.t, ok |-> TRUE]

parseDate(v, name) ==
  IF ~exists(v, name) THEN [v |-> v, val |-> ZeroDate, ok |-> FALSE]
  ELSE LET s == TrimSpace(Get(v.values, name))
       IN  IF s \in Absentish THEN [v |-> v, val |-> ZeroDate, ok |-> FALSE]
           ELSE LET r == DateParse(s)
                IN  IF r.err # "nil"
                    THEN [v |-> Add(v, name), val |-> ZeroDate, ok |-> FALSE]
                    ELSE [v |-> v, val |-> r.d, ok |-> TRUE]

\* parseInt that forgets to record the name of a value it cannot parse.
parseIntNoRecord(v, name) ==
  IF ~exists(v, name) THEN [v |-> v, val |-> 0, ok |-> FALSE]
  ELSE LET r == Atoi(Get(v.values, name))
       IN  IF r.err # "nil"
           THEN [v |-> v, val |-> 0, ok |-> FALSE]
           ELSE [v |-> v, val |-> r.n, ok |-> TRUE]

\* parseInt that reads the last value of a repeated name.
parseIntLastValue(v, name) ==
  IF ~exists(v, name) THEN [v |-> v, val |-> 0, ok |-> FALSE]
  ELSE LET r == Atoi(v.values[name][Len(v.values[name])])
       IN  IF r.err # "nil"
           THEN [v |-> Add(v, name), val |-> 0, ok |-> FALSE]
           ELSE [v |-> v, val |-> r.n, ok |-> TRUE]

\* parseInt without the test for an absent name: "" goes to the parser.
parseIntAbsentInvalid(v, name) ==
  LET r == Atoi(Get(v.values, name))
  IN  IF r.err # "nil"
      THEN [v |-> Add(v, name), val |-> 0, ok |-> FALSE]
      ELSE [v |-> v, val |-> r.n, ok |-> TRUE]

\* parseInt that takes the name out of invalidParams when its value parses.
parseIntClearsOnSuccess(v, name) ==
  IF ~exists(v, name) THEN [v |-> v, val |-> 0, ok |-> FALSE]
  ELSE LET r == Atoi(Get(v.values, name))
       IN  IF r.err # "nil"
           THEN [v |-> Add(v, name), val |-> 0, ok |-> FALSE]
           ELSE [v |-> [v EXCEPT !.invalidParams = @ \ {name}],
                 val |-> r.n, ok |-> TRUE]

parseInt(v, name) ==
  IF ~exists(v, name) THEN [v |-> v, val |-> 0, ok |-> FALSE]
  ELSE LET r == Atoi(Get(v.values, name))
       IN  IF r.err # "nil"
           THEN [v |-> Add(v, name), val |-> 0, ok |-> FALSE]
           ELSE [v |-> v, val |-> r.n, ok |-> TRUE]

TrueWords ==
  {<<"1">>, <<"t", "r", "u", "e">>, <<"y", "e", "s">>, <<"t">>}

FalseWords ==
  {<<"0">>, <<"f", "a", "l", "s", "e">>, <<"n", "o">>, <<"f">>}

\* parseBool that forgets to record the name of a value it cannot parse.
parseBoolNoRecord(v, name) ==
  IF ~exists(v, name) THEN [v |-> v, val |-> FALSE, ok |-> FALSE]
  ELSE LET s == ToLower(Get(v.values, name))
       IN  IF s \in TrueWords THEN [v |-> v, val |-> TRUE, ok |-> TRUE]
           ELSE [v |-> v, val |-> FALSE, ok |-> s \in FalseWords]

\* parseBool that compares the value as it was sent, in its own case.
parseBoolCaseSensitive(v, name) ==
  IF ~exists(v, name) THEN [v |-> v, val |-> FALSE, ok |-> FALSE]
  ELSE LET s == Get(v.values, name)
       IN  IF s \in TrueWords THEN [v |-> v, val |-> TRUE, ok |-> TRUE]
           ELSE IF s \in FalseWords THEN [v |-> v, val |-> FALSE, ok |-> TRUE]
           ELSE [v |-> Add(v, name), val |-> FALSE, ok |-> FALSE]

parseBool(v, name) ==
  IF ~exists(v, name) THEN [v |-> v, val |-> FALSE, ok |-> FALSE]
  ELSE LET s == ToLower(Get(v.values, name))
       IN  IF s \in TrueWords THEN [v |-> v, val |-> TRUE, ok |-> TRUE]
           ELSE IF s \in FalseWords THEN [v |-> v, val |-> FALSE, ok |-> TRUE]
           ELSE [v |-> Add(v, name), val |-> FALSE, ok |-> FALSE]

\* The public accessors: what each leaves in the Values (v) and returns (ret).
LookupInt(v, name) ==
  LET r == parseInt(v, name) IN [v |-> r.v, ret |-> <<r.val, r.ok>>]

GetInt(v, name) ==
  LET r == parseInt(v, name) IN [v |-> r.v, ret |-> <<r.val>>]

LookupTime(v, name) ==
  LET r == parseTime(v, name) IN [v |-> r.v, ret |-> <<r.val, r.ok>>]

GetTime(v, name) ==
  LET r == parseTime(v, name) IN [v |-> r.v, ret |-> <<r.val>>]

LookupDate(v, name) ==
  LET r == parseDate(v, name) IN [v |-> r.v, ret |-> <<r.val, r.ok>>]

GetDate(v, name) ==
  LET r == parseDate(v, name) IN [v |-> r.v, ret |-> <<r.val>>]

LookupBool(v, name) ==
  LET r == parseBool(v, name) IN [v |-> r.v, ret |-> <<r.val, r.ok>>]

GetBool(v, name) ==
  LET r == parseBool(v, name) IN [v |-> r.v, ret |-> <<r.val>>]

LookupString(v, name) ==
  IF exists(v, name)
  THEN [v |-> v, ret |-> <<Get(v.values, name), TRUE>>]
  ELSE [v |-> v, ret |-> <<<<>>, FALSE>>]

GetString(v, name) ==
  IF exists(v, name)
  THEN [v |-> v, ret |-> <<Get(v.values, name)>>]
  ELSE [v |-> v, ret |-> <<<<>>>>]

\* strings.Join, on strings kept whole: the elements with sep between them.
RECURSIVE Join(_, _)
Join(elems, sep) ==
  IF Len(elems) <= 1 THEN elems
  ELSE <<Head(elems), sep>> \o Join(Tail(elems), sep)

\* Err that stops at the first invalid name.
ErrFirstOnly(v, names) ==
  IF Cardinality(v.invalidParams) = 0 THEN NilError
  ELSE BadRequest(<<"invalid value(s) in query string: ", Head(names)>>)

\* Values.Err, given the slice that invalidParams.Values() returned.
Err(v, names) ==
  IF Cardinality(v.invalidParams) = 0 THEN NilError
  ELSE BadRequest(<<"invalid value(s) in query string: ">> \o Join(names, ","))

\* stringset.Set.Values: the members, each once, in an order the set
\* does not promise.
SetValues(set) ==
  {q \in [1..Cardinality(set) -> set] : \A x \in set : \E i \in DOMAIN q : q[i] = x}

(***************************************************************************)
(* Query strings the reader is built from.                                 *)
(***************************************************************************)
sEmpty == <<>>
sOne == <<"1">>
sZero == <<"0">>
sTwo == <<"2">>
sTwelve == <<"1", "2">>
sX == <<"x">>
sUpperTrue == <<"T", "R", "U", "E">>
sTrue == <<"t", "r", "u", "e">>
sT == <<"t">>
sF == <<"f">>
sUpperFalse == <<"F", "A", "L", "S", "E">>
sNull == <<"n", "u", "l", "l">>
sMixedYes == <<"Y", "e", "S">>
sUpperNo == <<"N", "O">>
sDate == <<"2", "0", "9", "9", "-", "1", "2", "-", "3", "1">>
sBadDate == <<"2", "0", "9", "9", "-", "0", "2", "-", "3", "0">>
sTime == <<"2", "0", "2", "0", "-", "0", "1", "-", "0", "2", "T", "1", "3", ":", "1", "4", ":", "1", "5", "Z">>
sTimeNano == <<"2", "0", "2", "0", "-", "0", "1", "-", "0", "2", "T", "1", "3", ":", "1", "4", ":", "1", "5", ".", "1", "2", "3", "4", "5", "6", "7", "8", "9", "Z">>
sTimePadded == <<" ", "2", "0", "2", "0", "-", "0", "1", "-", "0", "2", "T", "1", "3", ":", "1", "4", ":", "1", "5", "+", "1", "0", ":", "0", "0", " ">>
sBadTime == <<"2", "0", "2", "0", "-", "1", "3", "-", "0", "2", "T", "1", "3", ":", "1", "4", ":", "1", "5", "Z">>
sString == <<"s", "t", "r", "i", "n", "g", "!">>

\* query_test.go, TestQuery: the four URLs of the table.
TestQueries ==
  { << <<"bool", sTrue>>, <<"int", sTwelve>>, <<"time", sTime>>,
       <<"string", sString>>, <<"date", sDate>> >>,
    << <<"bool", sOne>>, <<"bool", sZero>>, <<"int", sOne>>, <<"int", sTwo>> >>,
    << <<"b1", sT>>, <<"b2", sF>>, <<"b3", sUpperTrue>>, <<"b4", sUpperFalse>> >>,
    << <<"t1", sTimeNano>> >> }

\* Further queries: timestamps and dates, good, padded and malformed.
MoreQueries ==
  { << <<"since", sTimePadded>>, <<"until", sBadTime>>, <<"day", sBadDate>> >>,
    << <<"since", sBadTime>>, <<"since", sTime>>, <<"limit", sX>> >>,
    << <<"q", sEmpty>>, <<"flag", sMixedYes>>, <<"off", sUpperNo>>,
       <<"day", sDate>> >> }

EnumNames == {"a", "b"}

EnumVals == {sOne, sX, sNull}

RECURSIVE SeqsUpTo(_, _)
SeqsUpTo(set, n) ==
  IF n = 0 THEN {<<>>}
  ELSE LET shorter == SeqsUpTo(set, n - 1)
       IN  shorter \cup {Append(q, x) : q \in shorter, x \in set}

Queries ==
  SeqsUpTo(EnumNames \X EnumVals, MaxPairs) \cup TestQueries \cup MoreQueries

\* The names a handler may ask for: those of the query, and one that no
\* query has.
CallNames == DOMAIN values \cup {"nope"}

\* The parser of the type rejects the string (a timestamp or a date that
\* trims to "", "undefined" or "null" is taken as absent, not parsed).
Rejected(type, str) ==
  CASE type = "int"    -> Atoi(str).err # "nil"
    [] type = "bool"   -> ToLower(str) \notin TrueWords \cup FalseWords
    [] type = "time"   -> /\ TrimSpace(str) \notin Absentish
                          /\ ParseRFC3339(TrimSpace(str)).err # "nil"
    [] type = "date"   -> /\ TrimSpace(str) \notin Absentish
                          /\ DateParse(TrimSpace(str)).err # "nil"
    [] type = "string" -> FALSE

\* Whether an accessor of the type, called for the name, hits a parse
\* failure: the name is there and the parser rejects the value read for it.
HitsParseFailure(type, vals, name) ==
  name \in DOMAIN vals /\ Rejected(type, Get(vals, name))

(***************************************************************************)
(* The reader's operations.                                                *)
(***************************************************************************)
NoCall == [kind |-> "none"]

QueryInit ==
  /\ qpc = "new"
  /\ values = EmptyMap
  /\ invalidParams = {}
  /\ last = NoCall
  /\ errRet = [kind |-> "none"]
  /\ errFresh = FALSE
  /\ ncalls = 0
  /\ failedOnce = {}
  /\ failedTwice = {}

\* Query(r): a new Values over the request's query string.
Query ==
  /\ qpc = "new"
  /\ \E q \in Queries : values' = ParseQuery(q)
  /\ invalidParams' = {}
  /\ qpc' = "ready"
  /\ UNCHANGED <<last, errRet, errFresh, ncalls, failedOnce, failedTwice>>
  /\ UNCHANGED <<rvars, wvars, bvars, svars>>

Self == [values |-> values, invalidParams |-> invalidParams]

\* One accessor call: r is what the accessor left and returned.
Called(kind, type, name, r) ==
  /\ qpc = "ready"
  /\ ncalls < MaxCalls
  /\ values' = r.v.values
  /\ invalidParams' = r.v.invalidParams
  /\ last' = [kind |-> kind, type |-> type, name |-> name, ret |-> r.ret,
              before |-> invalidParams]
  /\ ncalls' = ncalls + 1
  /\ failedOnce' = IF HitsParseFailure(type, values, name)
                   THEN failedOnce \cup {name} ELSE failedOnce
  /\ failedTwice' = IF HitsParseFailure(type, values, name) /\ name \in failedOnce
                    THEN failedTwice \cup {name} ELSE failedTwice
  /\ errFresh' = FALSE
  /\ UNCHANGED <<qpc, errRet>>
  /\ UNCHANGED <<rvars, wvars, bvars, svars>>

DoLookupInt == \E n \in CallNames : Called("Lookup", "int", n, LookupInt(Self, n))
DoGetInt == \E n \in CallNames : Called("Get", "int", n, GetInt(Self, n))
DoLookupTime == \E n \in CallNames : Called("Lookup", "time", n, LookupTime(Self, n))
DoGetTime == \E n \in CallNames : Called("Get", "time", n, GetTime(Self, n))
DoLookupDate == \E n \in CallNames : Called("Lookup", "date", n, LookupDate(Self, n))
DoGetDate == \E n \in CallNames : Called("Get", "date", n, GetDate(Self, n))
DoLookupBool == \E n \in CallNames : Called("Lookup", "bool", n, LookupBool(Self, n))
DoGetBool == \E n \in CallNames : Called("Get", "bool", n, GetBool(Self, n))
DoLookupString ==
  \E n \in CallNames : Called("Lookup", "string", n, LookupString(Self, n))
DoGetString == \E n \in CallNames : Called("Get", "string", n, GetString(Self, n))

\* Err(): the return value is kept in errRet; the Values is left alone.
DoErr ==
  /\ qpc = "ready"
  /\ \E names \in SetValues(invalidParams) : errRet' = Err(Self, names)
  /\ errFresh' = TRUE
  /\ UNCHANGED <<qpc, values, invalidParams, last, ncalls, failedOnce, failedTwice>>
  /\ UNCHANGED <<rvars, wvars, bvars, svars>>

QueryNext ==
  \/ Query
  \/ DoLookupInt \/ DoGetInt
  \/ DoLookupTime \/ DoGetTime
  \/ DoLookupDate \/ DoGetDate
  \/ DoLookupBool \/ DoGetBool
  \/ DoLookupString \/ DoGetString
  \/ DoErr

(***************************************************************************)
(* The payload buffer's bounded read (rawdata.go).                         *)
(***************************************************************************)
\* Largest value the model gives maxRequestLen (16 MiB in the source).
MaxLimit == 3
\* Room that ioutil.ReadAll offers to one Read call (512 bytes and up in
\* the library).
ReadBufCap == 2


ceIdentity == "identity"
ceDeflate == "deflate"
ceGzip == "gzip"

\* A []byte: nil, or a slice with its bytes.
NilBytes == [isNil |-> TRUE, bytes |-> <<>>]
Slice(bytes) == [isNil |-> FALSE, bytes |-> bytes]

\* var data rawData
ZeroRawData ==
  [ContentType |-> "", ContentEncoding |-> "", Content |-> NilBytes,
   UncompressedLength |-> 0]

\* A byte is its number; a text becomes bytes character by character.
\* The byte of a character, for the characters the payloads are made of.
ByteOf(c) ==
  CASE c = " " -> 32 [] c = "\"" -> 34 [] c = "," -> 44 [] c = "-" -> 45
    [] c = "0" -> 48 [] c = "1" -> 49 [] c = "2" -> 50 [] c = "9" -> 57
    [] c = ":" -> 58 [] c = "I" -> 73 [] c = "S" -> 83 [] c = "\\" -> 92
    [] c = "a" -> 97 [] c = "b" -> 98 [] c = "e" -> 101 [] c = "f" -> 102
    [] c = "g" -> 103 [] c = "i" -> 105 [] c = "l" -> 108 [] c = "n" -> 110
    [] c = "r" -> 114 [] c = "s" -> 115 [] c = "t" -> 116 [] c = "u" -> 117
    [] c = "x" -> 120 [] c = "{" -> 123 [] c = "}" -> 125

\* []byte(s)
ToBytes(s) == [i \in 1..Len(s) |-> ByteOf(s[i])]

\* n copies of the byte b.
Repeat(b, n) == [i \in 1..n |-> b]

\* The compressed stream of compress/flate, writer and reader: the model
\* keeps what the package relies on (repetitive data shrinks, other data
\* grows, the reader gives back what the writer was given and refuses a
\* cut stream) with run lengths in place of DEFLATE's coding: each run of
\* equal bytes is a count and the byte, and a count of 0 ends the stream.
\* The payloads of the model are shorter than 256 bytes, so that a count
\* is a byte.
\*
\* The runs of b[lo..hi], where a run starts at lo and one ends at hi: the
\* range is one run, or is cut where a run starts, as near the middle as
\* can be.
RECURSIVE FlateRuns(_, _, _)
FlateRuns(b, lo, hi) ==
  LET cuts == {i \in (lo + 1)..hi : b[i] # b[i - 1]}
      mid  == (lo + hi) \div 2
      far(i) == IF i < mid THEN mid - i ELSE i - mid
  IN  IF cuts = {} THEN <<hi - lo + 1, b[lo]>>
      ELSE LET c == CHOOSE i \in cuts : \A j \in cuts : far(i) <= far(j)
           IN  FlateRuns(b, lo, c - 1) \o FlateRuns(b, c, hi)

FlateWrite(b) ==
  (IF b = <<>> THEN <<>> ELSE FlateRuns(b, 1, Len(b))) \o <<0>>

\* The bytes of the runs numbered lo..hi of the stream z.
RECURSIVE Unrun(_, _, _)
Unrun(z, lo, hi) ==
  IF lo > hi THEN <<>>
  ELSE IF lo = hi THEN Repeat(z[2 * lo], z[2 * lo - 1])
  ELSE LET mid == (lo + hi) \div 2
       IN  Unrun(z, lo, mid) \o Unrun(z, mid + 1, hi)

\* flate reader from position i of the input: the bytes, an error if the
\* stream is cut before its end, and the position after the stream.
FlateRead(input, i) ==
  LET z    == SubSeq(input, i, Len(input))
      ends == {k \in 1..Len(z) : k % 2 = 1 /\ z[k] = 0}
  IN  IF ends = {}
      THEN [err |-> "unexpected EOF", bytes |-> <<>>, next |-> Len(input) + 1]
      ELSE LET e == CHOOSE k \in ends : \A j \in ends : k <= j
           IN  [err |-> "nil", bytes |-> Unrun(z, 1, (e - 1) \div 2),
                next |-> i + e]

\* The gzip member: a header of ten bytes, the compressed stream, and a
\* trailer of eight bytes holding a checksum and the length of the data.
GzipHeader == <<31, 139, 8, 0, 0, 0, 0, 0, 0, 255>>

\* The checksum of the trailer, in one byte.
Checksum(b) ==
  IF b = <<>> THEN 0 ELSE (b[1] + 3 * b[Len(b)] + Len(b)) % 256

GzipTrailer(b) ==
  <<Checksum(b), 0, 0, 0, Len(b) % 256, (Len(b) \div 256) % 256, 0, 0>>

\* gzip.NewWriter(&buf), w.Write(content), w.Close(): buf.Bytes().  Writing
\* to a bytes.Buffer does not fail.
GzipWrite(b) == GzipHeader \o FlateWrite(b) \o GzipTrailer(b)

\* gzip.NewReader(input): fails unless a whole header is there.
GzipNewReader(z) ==
  IF Len(z) < Len(GzipHeader) THEN "unexpected EOF"
  ELSE IF SubSeq(z, 1, 3) # SubSeq(GzipHeader, 1, 3) THEN "invalid header"
  ELSE "nil"

\* io.Copy(&writer, reader) from a gzip reader: the data, or an error.
GzipRead(z) ==
  LET r == FlateRead(z, Len(GzipHeader) + 1)
  IN  IF r.err # "nil" THEN [err |-> r.err, bytes |-> <<>>]
      ELSE IF r.next + 7 > Len(z)
      THEN [err |-> "unexpected EOF", bytes |-> <<>>]
      ELSE IF SubSeq(z, r.next, r.next + 7) # GzipTrailer(r.bytes)
      THEN [err |-> "invalid checksum", bytes |-> <<>>]
      ELSE [err |-> "nil", bytes |-> r.bytes]

\* io.Copy(&writer, reader) from a flate reader: the data, or an error.
FlateCopy(z) ==
  LET r == FlateRead(z, 1)
  IN  IF r.err # "nil" THEN [err |-> r.err, bytes |-> <<>>]
      ELSE [err |-> "nil", bytes |-> r.bytes]

\* errors.New(msg): an error with no public method.
New(msg) ==
  [kind |-> "error", text |-> <<msg>>, status |-> 0, code |-> "",
   hasMessage |-> FALSE, message |-> <<>>, publicStatus |-> FALSE,
   publicMessage |-> FALSE, publicCode |-> FALSE, cause |-> NilError]

\* (*rawData).IsCompressed: the answer, and the buffer with an empty
\* encoding rewritten to identity.
IsCompressed(d) ==
  LET d1 == IF d.ContentEncoding = ""
            THEN [d EXCEPT !.ContentEncoding = ceIdentity] ELSE d
  IN  [d |-> d1, ret |-> d1.ContentEncoding # ceIdentity]

\* (*bytes.Buffer).Bytes(): nil when nothing was written.
BufferBytes(b) == IF b = <<>> THEN NilBytes ELSE Slice(b)

\* Decompress that leaves the encoding of the data it has decompressed.
DecompressKeepsEncoding(data0) ==
  LET c == IsCompressed(data0)
      d == c.d
  IN  IF ~c.ret THEN [d |-> d, err |-> NilError]
      ELSE IF d.ContentEncoding \notin {ceDeflate, ceGzip}
      THEN [d |-> d, err |-> New("unknown content-encoding")]
      ELSE IF d.ContentEncoding = ceGzip /\ GzipNewReader(d.Content.bytes) # "nil"
      THEN [d |-> d, err |-> New(GzipNewReader(d.Content.bytes))]
      ELSE LET out == IF d.ContentEncoding = ceDeflate
                      THEN FlateCopy(d.Content.bytes)
                      ELSE GzipRead(d.Content.bytes)
           IN  IF out.err # "nil" THEN [d |-> d, err |-> New(out.err)]
               ELSE [d |-> [d EXCEPT !.Content = BufferBytes(out.bytes),
                                     !.UncompressedLength = Len(out.bytes)],
                     err |-> NilError]

\* (*rawData).Decompress: the buffer afterwards and the error returned.
Decompress(data0) ==
  LET c == IsCompressed(data0)
      d == c.d
  IN  IF ~c.ret THEN [d |-> d, err |-> NilError]
      ELSE IF d.ContentEncoding \notin {ceDeflate, ceGzip}
      THEN [d |-> d, err |-> New("unknown content-encoding")]
      ELSE IF d.ContentEncoding = ceGzip /\ GzipNewReader(d.Content.bytes) # "nil"
      THEN [d |-> d, err |-> New(GzipNewReader(d.Content.bytes))]
      ELSE LET out == IF d.ContentEncoding = ceDeflate
                      THEN FlateCopy(d.Content.bytes)
                      ELSE GzipRead(d.Content.bytes)
           IN  IF out.err # "nil" THEN [d |-> d, err |-> New(out.err)]
               ELSE [d |-> [d EXCEPT !.Content = BufferBytes(out.bytes),
                                     !.ContentEncoding = "",
                                     !.UncompressedLength = Len(out.bytes)],
                     err |-> NilError]

\* const overhead: len("Content-Encoding: gzip\r\n")
overhead == 24

\* Already compressed buffers compressed again.
SkipCompressionIfShort(compressed, n) == n < overhead * 4

\* CompressResponse, line 152: already compressed, or not worth compressing.
SkipCompression(compressed, n) == compressed \/ n < overhead * 4

\* A test of the header that honours a refusal: sub is in s, at a place
\* where ";q=0" does not follow it.
ContainsUnlessRefused(s, sub) ==
  \E i \in 1..(Len(s) - Len(sub) + 1) :
    /\ SubSeq(s, i, i + Len(sub) - 1) = sub
    /\ ~(/\ i + Len(sub) + 3 <= Len(s)
          /\ SubSeq(s, i + Len(sub), i + Len(sub) + 3) = <<";", "q", "=", "0">>)

\* The request accepts gzip (line 161): strings.Contains(ae, "gzip").
RECURSIVE Contains(_, _)
Contains(s, sub) ==
  IF Len(s) < Len(sub) THEN FALSE
  ELSE SubSeq(s, 1, Len(sub)) = sub \/ Contains(Tail(s), sub)

\* The compressed form committed whenever it is shorter.
WorthCommittingIfShorter(clen, n) == clen < n

\* CompressResponse, line 180: the compressed form is worth its header.
WorthCommitting(clen, n) == clen + overhead < n

\* (*rawData).CompressResponse(r): the buffer afterwards and the error
\* returned; ae is the request's Accept-Encoding header.
CompressResponse(data0, ae) ==
  LET c == IsCompressed(data0)
      d == c.d
  IN  IF SkipCompression(c.ret, Len(d.Content.bytes))
      THEN [d |-> d, err |-> NilError]
      ELSE IF ~Contains(ae, <<"g", "z", "i", "p">>)
      THEN [d |-> d, err |-> NilError]
      ELSE LET compressedBytes == GzipWrite(d.Content.bytes)
           IN  IF WorthCommitting(Len(compressedBytes), Len(d.Content.bytes))
               THEN [d |-> [d EXCEPT
                              !.UncompressedLength = Len(d.Content.bytes),
                              !.Content = Slice(compressedBytes),
                              !.ContentEncoding = ceGzip],
                     err |-> NilError]
               ELSE [d |-> d, err |-> NilError]

\* encoding/json's reading of a document, for the JSON the payloads use:
\* objects, strings, integers and the three literals, with white space
\* between.  Each scanner returns the position after what it read, 0 if
\* the text is not JSON there.
IsSpace(c) == c \in {ByteOf(" "), 9, 10, 13}

RECURSIVE SkipSpace(_, _)
SkipSpace(b, i) ==
  IF i <= Len(b) /\ IsSpace(b[i]) THEN SkipSpace(b, i + 1) ELSE i

\* From inside a string to after its closing quote: on to the next quote,
\* backslash or control character.
RECURSIVE ScanString(_, _)
ScanString(b, i) ==
  LET marks == {j \in i..Len(b) :
                  b[j] < 32 \/ b[j] \in {ByteOf("\""), ByteOf("\\")}}
  IN  IF marks = {} THEN 0
      ELSE LET j == CHOOSE m \in marks : \A k \in marks : m <= k
           IN  IF b[j] = ByteOf("\"") THEN j + 1
               ELSE IF b[j] < 32 THEN 0
               ELSE IF j + 1 <= Len(b)
                         /\ b[j + 1] \in {ByteOf("\""), ByteOf("\\"),
                                          ByteOf("n"), ByteOf("t")}
               THEN ScanString(b, j + 2)
               ELSE 0

IsDigit(c) == c >= ByteOf("0") /\ c <= ByteOf("9")

RECURSIVE ScanDigits(_, _)
ScanDigits(b, i) ==
  IF i <= Len(b) /\ IsDigit(b[i]) THEN ScanDigits(b, i + 1) ELSE i

\* An integer: an optional minus, then 0 or digits that do not start with 0.
ScanNumber(b, i) ==
  LET j == IF b[i] = ByteOf("-") THEN i + 1 ELSE i
  IN  IF j > Len(b) \/ ~IsDigit(b[j]) THEN 0
      ELSE IF b[j] = ByteOf("0") THEN j + 1
      ELSE ScanDigits(b, j)

\* The word at position i.
ScanWord(b, i, word) ==
  IF i + Len(word) - 1 <= Len(b)
       /\ SubSeq(b, i, i + Len(word) - 1) = ToBytes(word)
  THEN i + Len(word) ELSE 0

RECURSIVE ScanValue(_, _)
RECURSIVE ScanMembers(_, _)
RECURSIVE AfterValue(_, _)
ScanValue(b, i) ==
  LET j == SkipSpace(b, i)
  IN  IF j > Len(b) THEN 0
      ELSE IF b[j] = ByteOf("{")
      THEN LET k == SkipSpace(b, j + 1)
           IN  IF k <= Len(b) /\ b[k] = ByteOf("}") THEN k + 1
               ELSE ScanMembers(b, k)
      ELSE IF b[j] = ByteOf("\"") THEN ScanString(b, j + 1)
      ELSE IF b[j] = ByteOf("-") \/ IsDigit(b[j]) THEN ScanNumber(b, j)
      ELSE IF b[j] = ByteOf("n") THEN ScanWord(b, j, <<"n", "u", "l", "l">>)
      ELSE IF b[j] = ByteOf("t") THEN ScanWord(b, j, <<"t", "r", "u", "e">>)
      ELSE IF b[j] = ByteOf("f")
      THEN ScanWord(b, j, <<"f", "a", "l", "s", "e">>)
      ELSE 0

\* The members of an object, from the first key to after the closing brace.
ScanMembers(b, i) ==
  IF i > Len(b) \/ b[i] # ByteOf("\"") THEN 0
  ELSE LET k == ScanString(b, i + 1)
           c == IF k = 0 THEN 0 ELSE SkipSpace(b, k)
       IN  IF c = 0 \/ c > Len(b) THEN 0
           ELSE IF b[c] # ByteOf(":") THEN 0
           ELSE AfterValue(b, ScanValue(b, c + 1))

\* What follows a member's value, which ends before position v (0: there
\* was no value): the closing brace, or a comma and the other members.
AfterValue(b, v) ==
  IF v = 0 THEN 0
  ELSE LET e == SkipSpace(b, v)
       IN  IF e > Len(b) THEN 0
           ELSE IF b[e] = ByteOf("}") THEN e + 1
           ELSE IF b[e] = ByteOf(",") THEN ScanMembers(b, SkipSpace(b, e + 1))
           ELSE 0

\* json.Unmarshal(data, v) with v a pointer to a struct: a syntax error for
\* what is not one JSON document, a type error for a document that is
\* neither an object nor null.
Unmarshal(b) ==
  LET e     == ScanValue(b, 1)
      first == SkipSpace(b, 1)
  IN  IF e = 0 \/ SkipSpace(b, e) # Len(b) + 1 THEN "syntax error"
      ELSE IF b[first] \notin {ByteOf("{"), ByteOf("n")}
      THEN "cannot unmarshal into Go value"
      ELSE "nil"

\* The error of Decompress returned as it is.
DecompressFailurePassed(err) == err

\* UnmarshalTo, line 192: any error of Decompress becomes a bad request.
DecompressFailure(err) == BadRequest(<<"cannot decompress payload">>)

\* (*rawData).UnmarshalTo(v): the buffer afterwards and the error returned.
UnmarshalTo(data0) ==
  LET dec == Decompress(data0)
  IN  IF dec.err.kind # "nil"
      THEN [d |-> dec.d, err |-> DecompressFailure(dec.err)]
      ELSE IF Unmarshal(dec.d.Content.bytes) # "nil"
      THEN [d |-> dec.d, err |-> BadRequest(<<"invalid JSON payload">>)]
      ELSE [d |-> dec.d, err |-> NilError]

\* The byte infiniteReadCloser fills its buffer with, and the two bytes of
\* the shortest JSON object.
SpaceByte == 32
Bytes == {ByteOf("{"), ByteOf("}")}

DigitChars == <<"0", "1", "2", "3", "4", "5", "6", "7", "8", "9">>

\* Content-Length headers: absent (""), the numbers around the limit, the
\* header of TestReadRequest, and malformed or out-of-range ones.
sHuge == <<"9", "9", "9", "9", "9", "9", "9", "9", "9", "9">>
sMinusOne == <<"-", "1">>
sPlusTwo == <<"+", "2">>
sOutOfRange == <<"9", "9", "9", "9", "9", "9", "9", "9", "9", "9", "9", "9", "9", "9", "9", "9", "9", "9", "9", "9">>

ContentLengths ==
  {<<>>, sHuge, sMinusOne, sPlusTwo, sX, sOutOfRange}
    \cup {<<DigitChars[n + 1]>> : n \in 0..(MaxLimit + 1)}

Requests ==
  [contentLength   : ContentLengths,
   contentEncoding : {"", ceGzip, ceDeflate, "br"},
   contentType     : {"", "application/json"}]

Bodies == SeqsUpTo(Bytes, MaxLimit + 1)

Min(a, b) == IF a < b THEN a ELSE b

\* What one Read(p) on the body stream may do, len(p) = k >= 1: the bytes
\* it delivers, the error it returns with them, and what the stream has
\* left.  A stream may deliver fewer bytes than asked, and may report its
\* end together with its last bytes.
StreamRead(d, tail, k) ==
  IF d = <<>>
  THEN CASE tail = "eof" -> {[bytes |-> <<>>, err |-> "EOF", rest |-> <<>>]}
         [] tail = "err" -> {[bytes |-> <<>>, err |-> "err", rest |-> <<>>]}
         [] tail = "inf" -> {[bytes |-> [i \in 1..k |-> SpaceByte],
                              err |-> "nil", rest |-> <<>>]}
  ELSE {[bytes |-> SubSeq(d, 1, n), err |-> "nil",
         rest |-> SubSeq(d, n + 1, Len(d))] : n \in 1..Min(k, Len(d))}
       \cup (IF Len(d) <= k /\ tail # "inf"
             THEN {[bytes |-> d, err |-> IF tail = "eof" THEN "EOF" ELSE "err",
                    rest |-> <<>>]}
             ELSE {})

\* rawData.ReadRequest from the Content-Encoding header on (lines 79-93).
ReadHeaders(d, r) ==
  LET d1 == IF r.contentEncoding # ""
            THEN [d EXCEPT !.ContentEncoding = r.contentEncoding,
                           !.UncompressedLength = 0]
            ELSE [d EXCEPT !.UncompressedLength = Len(d.Content.bytes),
                           !.ContentEncoding = ceIdentity]
  IN  [d1 EXCEPT !.ContentType = IF r.contentType = ""
                                 THEN "application/octet-stream"
                                 ELSE r.contentType]

\* A declared length equal to the limit let through.
DeclaredTooLargeStrict(v, max) == v > max

\* The comparison of the declared length with the limit (line 56).
DeclaredTooLarge(v, max) == v >= max

\* A body that fills the limit exactly let through.
ReadTooLargeStrict(content, max) == Len(content) > max

\* The comparison of the amount read with the limit (line 73).
ReadTooLarge(content, max) == Len(content) >= max

\* A limited reader that lets one byte more than the limit through.
LimitReaderOneMore(n) == n + 1

\* io.LimitReader(r.Body, n): the N of the LimitedReader, the bytes it
\* will still take from the body (line 68).
LimitReader(n) == n

\* The ReadRequest facade, after data.ReadRequest returned err and left d:
\* the error is returned, or else what data.UnmarshalTo(body) returns.
FacadeAfterRead(err, d) == IF err.kind # "nil" THEN err ELSE UnmarshalTo(d).err

\* rawData.ReadRequest returns err, leaving d in data.
Return(err, d) ==
  /\ rpc' = "done"
  /\ rret' = err
  /\ fret' = FacadeAfterRead(err, d)
  /\ data' = d

\* No request read yet.
ReadIdle ==
  /\ rpc = "idle"
  /\ req = [contentLength |-> <<>>, contentEncoding |-> "", contentType |-> ""]
  /\ bodyData = <<>>
  /\ bodyTail = "eof"
  /\ bodyReads = 0
  /\ bodyTaken = 0
  /\ want = 0
  /\ limN = 0
  /\ buf = <<>>
  /\ data = ZeroRawData
  /\ rret = [kind |-> "none"]
  /\ fret = [kind |-> "none"]

ReadInit == maxRequestLen = MaxLimit /\ ReadIdle

\* ReadRequest(r, body), up to the first Read of the body: the facade's
\* fresh rawData, and rawData.ReadRequest's look at Content-Length.
ReadRequest ==
  /\ rpc = "idle"
  /\ \E r \in Requests, b \in Bodies, t \in {"eof", "err", "inf"} :
       /\ req' = r
       /\ bodyData' = b
       /\ bodyTail' = t
       /\ bodyReads' = 0
       /\ bodyTaken' = 0
       /\ buf' = <<>>
       /\ IF r.contentLength # <<>>
          THEN LET p == ParseInt(r.contentLength)
               IN  /\ limN' = 0
                   /\ IF p.err # "nil" \/ p.n < 0
                      THEN /\ Return(BadRequest(<<"invalid content-length">>), ZeroRawData)
                           /\ want' = 0
                      ELSE IF DeclaredTooLarge(p.n, maxRequestLen)
                      THEN /\ Return(Public(<<"payload too large">>,
                                            StatusRequestEntityTooLarge),
                                     ZeroRawData)
                           /\ want' = 0
                      ELSE IF p.n = 0
                      THEN \* io.ReadFull of no bytes makes no Read call
                           /\ Return(NilError,
                                     ReadHeaders([ZeroRawData EXCEPT
                                                    !.Content = Slice(<<>>)], r))
                           /\ want' = 0
                      ELSE /\ want' = p.n
                           /\ rpc' = "readfull"
                           /\ data' = ZeroRawData
                           /\ rret' = [kind |-> "none"]
                           /\ fret' = [kind |-> "none"]
          ELSE /\ limN' = LimitReader(maxRequestLen)
               /\ want' = 0
               /\ rpc' = "readall"
               /\ data' = ZeroRawData
               /\ rret' = [kind |-> "none"]
               /\ fret' = [kind |-> "none"]
  /\ UNCHANGED <<maxRequestLen, qvars, wvars, bvars, svars>>

\* One Read call of io.ReadFull(r.Body, buf), and what follows it when the
\* loop of io.ReadAtLeast ends.
ReadFullStep ==
  /\ rpc = "readfull"
  /\ \E o \in StreamRead(bodyData, bodyTail, want - Len(buf)) :
       LET got == buf \o o.bytes
       IN  /\ buf' = got
           /\ bodyData' = o.rest
           /\ bodyReads' = bodyReads + 1
           /\ bodyTaken' = bodyTaken + Len(o.bytes)
           /\ IF Len(got) >= want
              THEN Return(NilError,
                          ReadHeaders([data EXCEPT !.Content = Slice(got)], req))
              ELSE IF o.err # "nil"
              THEN Return(BadRequest(<<"cannot read full content">>), data)
              ELSE UNCHANGED <<rpc, rret, fret, data>>
  /\ UNCHANGED <<maxRequestLen, req, bodyTail, want, limN, qvars, wvars, bvars, svars>>

\* The end of ioutil.ReadAll(reader) and the rest of the branch (lines 70-76).
AfterReadAll(content, err) ==
  IF err # "nil"
  THEN Return(BadRequest(<<"cannot read all content">>), data)
  ELSE IF ReadTooLarge(content, maxRequestLen)
  THEN Return(Public(<<"payload too large">>, StatusRequestEntityTooLarge), data)
  ELSE Return(NilError, ReadHeaders([data EXCEPT !.Content = Slice(content)], req))

\* One Read call of ioutil.ReadAll on io.LimitReader(r.Body, maxRequestLen).
ReadAllStep ==
  /\ rpc = "readall"
  /\ IF limN <= 0
     THEN \* LimitedReader.Read: io.EOF without a Read of the body
          /\ AfterReadAll(buf, "nil")
          /\ UNCHANGED <<buf, bodyData, bodyReads, bodyTaken, limN>>
     ELSE \E o \in StreamRead(bodyData, bodyTail, Min(ReadBufCap, limN)) :
            LET got == buf \o o.bytes
            IN  /\ buf' = got
                /\ bodyData' = o.rest
                /\ bodyReads' = bodyReads + 1
                /\ bodyTaken' = bodyTaken + Len(o.bytes)
                /\ limN' = limN - Len(o.bytes)
                /\ IF o.err = "EOF" THEN AfterReadAll(got, "nil")
                   ELSE IF o.err = "err" THEN AfterReadAll(got, "err")
                   ELSE UNCHANGED <<rpc, rret, fret, data>>
  /\ UNCHANGED <<maxRequestLen, req, bodyTail, want, qvars, wvars, bvars, svars>>

ReadNext == ReadRequest \/ ReadFullStep \/ ReadAllStep

(***************************************************************************)
(* The error writer: WriteError (rawdata.go) and package writeerror        *)
(* (unnamed/part_003).  The text of an error and a message are sequences   *)
(* of pieces of text; "" is the empty sequence.                            *)
(***************************************************************************)

\* errors.Wrap(err, msg): a new error around err, with no public method.
Wrap(err, msg) ==
  [kind |-> "error", text |-> <<msg, ": ">> \o err.text, status |-> 0,
   code |-> "", hasMessage |-> FALSE, message |-> <<>>,
   publicStatus |-> FALSE, publicMessage |-> FALSE, publicCode |-> FALSE,
   cause |-> err]

\* errors.Cause(err): the innermost error.
RECURSIVE Cause(_)
Cause(err) == IF err.cause.kind = "nil" THEN err ELSE Cause(err.cause)

\* http.StatusText, for the statuses the model uses.
StatusText(status) ==
  CASE status = 400 -> <<"Bad Request">>
    [] status = 404 -> <<"Not Found">>
    [] status = 413 -> <<"Request Entity Too Large">>
    [] status = 500 -> <<"Internal Server Error">>
    [] OTHER -> <<>>

\* writeerror.Content{}
ZeroContent ==
  [Message |-> <<>>, StatusCode |-> 0, Code |-> "", Trace |-> "",
   Err |-> NilError]

\* The callbacks a Config may hold; "nil" is an unset field.
defaultGetTrace(r) == ""
defaultIsTrusted(r) == FALSE

\* The JSON object of defaultMarshalContent: the keys written, in order,
\* and the value of each (omitempty drops a key whose value is empty).
defaultMarshalContent(content) ==
  LET detail == IF content.Err.kind # "nil" THEN content.Err.text ELSE <<>>
  IN  [keys    |-> <<"message", "status">>
                     \o (IF content.Code # "" THEN <<"code">> ELSE <<>>)
                     \o (IF content.Trace # "" THEN <<"trace">> ELSE <<>>)
                     \o (IF detail # <<>> THEN <<"detail">> ELSE <<>>),
       message |-> content.Message,
       status  |-> content.StatusCode,
       code    |-> content.Code,
       trace   |-> content.Trace,
       detail  |-> detail]

\* A marshaller set by the application: every field of the Content it is
\* given, under its own key.
customMarshalContent(content) ==
  [keys    |-> <<"msg", "st", "code", "trace", "err">>,
   message |-> content.Message,
   status  |-> content.StatusCode,
   code    |-> content.Code,
   trace   |-> content.Trace,
   detail  |-> IF content.Err.kind # "nil" THEN content.Err.text ELSE <<>>]

\* Callbacks set by the application: the trace id and the locality that the
\* middleware in front of the handler attached to the request.
customGetTrace(r) == r.traceId
customIsTrusted(r) == r.local

\* writeerror.ConfigFromRequest: the Config of the request's context, each
\* unset callback replaced by the default one.
ConfigFromRequest(r) ==
  [GetTrace       |-> IF r.config.GetTrace = "nil" THEN "default"
                      ELSE r.config.GetTrace,
   IsTrusted      |-> IF r.config.IsTrusted = "nil" THEN "default"
                      ELSE r.config.IsTrusted,
   MarshalContent |-> IF r.config.MarshalContent = "nil" THEN "default"
                      ELSE r.config.MarshalContent,
   ErrorWritten   |-> IF r.config.ErrorWritten = "nil" THEN "default"
                      ELSE r.config.ErrorWritten]

GetTrace(config, r) ==
  IF config.GetTrace = "default" THEN defaultGetTrace(r) ELSE customGetTrace(r)

IsTrusted(config, r) ==
  IF config.IsTrusted = "default" THEN defaultIsTrusted(r) ELSE customIsTrusted(r)

MarshalContent(config, content) ==
  IF config.MarshalContent = "default" THEN defaultMarshalContent(content)
  ELSE customMarshalContent(content)

\* len(data) of a marshalled body, counted in pieces of text.
ByteLen(body) ==
  Len(body.keys) + Len(body.message) + Len(body.detail) + 1
    + (IF body.code # "" THEN 1 ELSE 0) + (IF body.trace # "" THEN 1 ELSE 0)

\* WriteError, line 360: a nil error is replaced.
ErrOrNoInformation(err) ==
  IF err.kind = "nil"
  THEN Public(<<"no information available">>, StatusInternalServerError)
  ELSE err

\* The public status written as it is, whatever it is.
ContentStatusUnchecked(cause) ==
  IF cause.publicStatus THEN cause.status ELSE StatusInternalServerError

\* The status of the content (lines 370-376).
ContentStatus(cause) ==
  LET st == IF cause.publicStatus THEN cause.status ELSE 0
  IN  IF st < 400 \/ st > 599 THEN StatusInternalServerError ELSE st

\* The message of the content (lines 378-393).
ContentMessage(cause, status) ==
  LET m == IF cause.publicMessage
           THEN (IF cause.hasMessage THEN cause.message ELSE cause.text)
           ELSE <<>>
  IN  IF m = <<>> THEN StatusText(status) ELSE m

\* The underlying error attached for every client.
ContentErrAlways(config, r, err) == err

\* The underlying error of the content handed to the marshaller
\* (lines 401-404).
ContentErr(config, r, err) == IF IsTrusted(config, r) THEN err ELSE NilError

\* The content WriteError builds (lines 366-405).
BuildContent(err, r, config) ==
  LET cause  == Cause(err)
      status == ContentStatus(cause)
  IN  [Message    |-> ContentMessage(cause, status),
       StatusCode |-> status,
       Code       |-> IF cause.publicCode THEN cause.code ELSE "",
       Trace      |-> GetTrace(config, r),
       Err        |-> ContentErr(config, r, err)]

\* The headers WriteError sets for a marshalled body (lines 411-413).
ResponseHeaders(body) ==
  [h \in {"Content-Type", "Content-Length", "X-Content-Type-Options"} |->
     CASE h = "Content-Type" -> <<"application/json">>
       [] h = "Content-Length" -> <<ByteLen(body)>>
       [] OTHER -> <<"nosniff">>]

\* The notifier given the content as the client saw it.
NotifiedContentAsSent(content, err) == content

\* The content of the post-write notifier: content.Err = err (line 419).
NotifiedContent(content, err) == [content EXCEPT !.Err = err]

\* What WriteError(w, r, err) does with a fresh response writer, from its
\* first line to its last: the writer afterwards, the content marshalled and
\* the content notified.
WriteErrorResult(err0, r) ==
  LET err     == ErrOrNoInformation(err0)
      config  == ConfigFromRequest(r)
      content == BuildContent(err, r, config)
      body    == MarshalContent(config, content)
  IN  [resp |-> [headers |-> ResponseHeaders(body),
                 status  |-> content.StatusCode,
                 body    |-> body,
                 calls   |-> <<"MarshalContent", "Header.Set", "Header.Set",
                               "Header.Set", "WriteHeader", "Write",
                               "ErrorWritten">>],
       marshalled |-> content,
       notified   |-> NotifiedContent(content, err)]

\* The errors a handler may pass: the innermost ones, alone or wrapped.
Statuses == {0, 200, 399, 400, 404, 599, 600}

Causes ==
  [kind : {"error"}, text : {<<"sql: no rows">>, <<"open /etc/app.key">>},
   status : Statuses, code : {"", "E42"},
   hasMessage : BOOLEAN, message : {<<>>, <<"not found">>},
   publicStatus : BOOLEAN, publicMessage : BOOLEAN, publicCode : BOOLEAN,
   cause : {NilError}]

\* An error type has a message and a code only with the method for it.
WellFormed(c) ==
  /\ (~c.hasMessage => c.message = <<>>)
  /\ (~c.publicCode => c.code = "")

Errors ==
  LET cs == {c \in Causes : WellFormed(c)}
  IN  {NilError} \cup cs \cup {Wrap(c, "lookup user") : c \in cs}

Callback == {"nil", "custom"}

WRequests ==
  [config  : [GetTrace : Callback, IsTrusted : Callback,
              MarshalContent : Callback, ErrorWritten : Callback],
   local   : BOOLEAN,
   traceId : {"a8845f4dc3792a63"}]

NoResponse ==
  [headers |-> EmptyMap, status |-> 0,
   body |-> [keys |-> <<>>, message |-> <<>>, status |-> 0, code |-> "",
             trace |-> "", detail |-> <<>>],
   calls |-> <<>>]

WriteInit ==
  /\ wpc = "idle"
  /\ werr = NilError
  /\ wreq = [config |-> [GetTrace |-> "nil", IsTrusted |-> "nil",
                         MarshalContent |-> "nil", ErrorWritten |-> "nil"],
             local |-> FALSE, traceId |-> ""]
  /\ resp = NoResponse
  /\ marshalled = ZeroContent
  /\ notified = ZeroContent

\* WriteError(w, r, err) up to the call of config.MarshalContent
\* (lines 359-408): the content is built and marshalled.
WriteError ==
  /\ wpc = "idle"
  /\ \E e \in Errors, r \in WRequests :
       /\ werr' = e
       /\ wreq' = r
       /\ marshalled' = BuildContent(ErrOrNoInformation(e), r,
                                     ConfigFromRequest(r))
  /\ resp' = [NoResponse EXCEPT !.calls = <<"MarshalContent">>]
  /\ wpc' = "marshalled"
  /\ UNCHANGED notified
  /\ UNCHANGED <<qvars, rvars, bvars, svars>>

\* The three w.Header().Set calls (lines 411-413).
WriteErrorSetHeaders ==
  /\ wpc = "marshalled"
  /\ resp' = [resp EXCEPT
       !.headers = ResponseHeaders(MarshalContent(ConfigFromRequest(wreq),
                                                  marshalled)),
       !.calls = @ \o <<"Header.Set", "Header.Set", "Header.Set">>]
  /\ wpc' = "headers"
  /\ UNCHANGED <<werr, wreq, marshalled, notified>>
  /\ UNCHANGED <<qvars, rvars, bvars, svars>>

\* w.WriteHeader(content.StatusCode) (line 414).
WriteErrorWriteHeader ==
  /\ wpc = "headers"
  /\ resp' = [resp EXCEPT !.status = marshalled.StatusCode,
                          !.calls = Append(@, "WriteHeader")]
  /\ wpc' = "status"
  /\ UNCHANGED <<werr, wreq, marshalled, notified>>
  /\ UNCHANGED <<qvars, rvars, bvars, svars>>

\* w.Write(data) (line 415).
WriteErrorWrite ==
  /\ wpc = "status"
  /\ resp' = [resp EXCEPT
       !.body = MarshalContent(ConfigFromRequest(wreq), marshalled),
       !.calls = Append(@, "Write")]
  /\ wpc' = "written"
  /\ UNCHANGED <<werr, wreq, marshalled, notified>>
  /\ UNCHANGED <<qvars, rvars, bvars, svars>>

\* content.Err = err and config.ErrorWritten(r, &content) (lines 419-422).
WriteErrorNotify ==
  /\ wpc = "written"
  /\ notified' = NotifiedContent(marshalled, ErrOrNoInformation(werr))
  /\ resp' = [resp EXCEPT !.calls = Append(@, "ErrorWritten")]
  /\ wpc' = "done"
  /\ UNCHANGED <<werr, wreq, marshalled>>
  /\ UNCHANGED <<qvars, rvars, bvars, svars>>

WriteNext ==
  \/ WriteError
  \/ WriteErrorSetHeaders
  \/ WriteErrorWriteHeader
  \/ WriteErrorWrite
  \/ WriteErrorNotify

(***************************************************************************)
(* The payload buffer on the way out: marshalling, the response writer and *)
(* the WriteResponse facade (rawdata.go).                                  *)
(***************************************************************************)
\* (*rawData).MarshalFrom(v): v.text is the JSON text json.Marshal gives
\* for the value; json.Marshal refuses a value of kind "unsupported" (a
\* channel, a function).
MarshalFrom(data0, v) ==
  IF v.kind = "unsupported"
  THEN [d |-> data0, err |-> New("json: unsupported type")]
  ELSE [d |-> [ContentType |-> "application/json", ContentEncoding |-> "",
               Content |-> Slice(ToBytes(v.text)),
               UncompressedLength |-> Len(v.text)],
        err |-> NilError]

\* strconv.Itoa(n) for n >= 0: the decimal digits.
RECURSIVE Itoa(_)
Itoa(n) ==
  IF n < 10 THEN <<DigitChars[n + 1]>>
  ELSE Append(Itoa(n \div 10), DigitChars[(n % 10) + 1])

\* http.Header.Set and http.Header.Del.
HeaderSet(h, key, value) ==
  [k \in DOMAIN h \cup {key} |-> IF k = key THEN value ELSE h[k]]
HeaderDel(h, key) == [k \in DOMAIN h \ {key} |-> h[k]]

\* A response writer nothing was written to, with the headers h set on it
\* by the handlers in front.
NewWriter(h) == [headers |-> h, status |-> 0, body |-> <<>>, calls |-> <<>>]

StatusOK == 200

\* w.Write(p): the status goes out as 200 if none was written, then the
\* bytes; a broken connection takes none of them and gives an error.
ResponseWrite(w, p, ok) ==
  [w |-> [w EXCEPT !.status = IF @ = 0 THEN StatusOK ELSE @,
                   !.body = IF ok THEN @ \o p ELSE @,
                   !.calls = Append(@, "Write")],
   err |-> IF ok THEN NilError ELSE New("write: broken pipe")]

\* The Content-Encoding header set whatever the buffer holds.
EncodingHeaderAlways(h, compressed, encoding) ==
  HeaderSet(h, "Content-Encoding", <<encoding>>)

\* rawData.WriteResponse, lines 106-110: the Content-Encoding header is set
\* for a compressed buffer and deleted for any other.
EncodingHeader(h, compressed, encoding) ==
  IF compressed THEN HeaderSet(h, "Content-Encoding", <<encoding>>)
  ELSE HeaderDel(h, "Content-Encoding")

\* (*rawData).WriteResponse(w): the buffer and the writer afterwards, and
\* the error returned; ok tells whether the connection takes the bytes.
rawDataWriteResponse(data0, w, ok) ==
  IF Len(data0.Content.bytes) = 0
  THEN [d |-> data0,
        w |-> [w EXCEPT
                 !.headers = HeaderDel(HeaderDel(
                               HeaderSet(@, "Content-Length", <<"0">>),
                               "Content-Type"), "Content-Encoding"),
                 !.status = StatusNoContent,
                 !.calls = @ \o <<"Header.Set", "Header.Del", "Header.Del",
                                  "WriteHeader">>],
        err |-> NilError]
  ELSE LET c  == IsCompressed(data0)
           d  == c.d
           h1 == EncodingHeader(w.headers, c.ret, d.ContentEncoding)
           h2 == HeaderSet(h1, "Content-Type", <<d.ContentType>>)
           h3 == HeaderSet(h2, "Content-Length", Itoa(Len(d.Content.bytes)))
           w1 == [w EXCEPT !.headers = h3,
                           !.calls = @ \o <<IF c.ret THEN "Header.Set"
                                            ELSE "Header.Del",
                                            "Header.Set", "Header.Set">>]
           out == ResponseWrite(w1, d.Content.bytes, ok)
       IN  [d |-> d, w |-> out.w,
            err |-> IF out.err.kind # "nil"
                    THEN Wrap(out.err, "cannot write response")
                    ELSE NilError]

\* A failure of the marshalling let through to the next stage.
MarshalFailedIgnored(err) == FALSE

\* WriteResponse, line 324: MarshalFrom returned an error.
MarshalFailed(err) == err.kind # "nil"

\* WriteResponse(w, r, body) on a fresh response writer: the functions
\* called in order, what WriteError did if it was called, the writer that
\* rawData.WriteResponse wrote to if it was called, the buffer, and the
\* error of the write, which is dropped (line 335).
WriteResponseResult(body, r, ok) ==
  LET none == [calls |-> <<>>, viaError |-> NoResponse,
               w |-> NewWriter(EmptyMap), d |-> ZeroRawData,
               dropped |-> NilError]
  IN  IF body.kind = "error"
      THEN [none EXCEPT !.calls = <<"WriteError">>,
                        !.viaError = WriteErrorResult(body, r).resp]
      ELSE LET m == MarshalFrom(ZeroRawData, body)
           IN  IF MarshalFailed(m.err)
               THEN [none EXCEPT !.calls = <<"MarshalFrom", "WriteError">>,
                                 !.viaError = WriteErrorResult(m.err, r).resp]
               ELSE LET c == CompressResponse(m.d, r.acceptEncoding)
                    IN  IF c.err.kind # "nil"
                        THEN [none EXCEPT
                                !.calls = <<"MarshalFrom", "CompressResponse",
                                            "WriteError">>,
                                !.viaError = WriteErrorResult(c.err, r).resp,
                                !.d = c.d]
                        ELSE LET o == rawDataWriteResponse(c.d,
                                        NewWriter(EmptyMap), ok)
                             IN  [none EXCEPT
                                    !.calls = <<"MarshalFrom",
                                                "CompressResponse",
                                                "WriteResponse">>,
                                    !.w = o.w, !.d = o.d, !.dropped = o.err]

\* Largest number of operations made on one buffer.
MaxOps == 2

\* The payloads: the two JSON bodies of TestReadRequest, a JSON document
\* long enough to be worth compressing, and data around the two
\* thresholds of CompressResponse.
sPayload ==
  <<"{", "\"", "S", "t", "r", "i", "n", "g", "\"", ":", "\"", "S", "\"", ",",
    "\"", "I", "n", "t", "\"", ":", "9", "9", "}">>
sTruncated == SubSeq(sPayload, 1, 20)
sLongPayload ==
  <<"{", "\"", "a", "\"", ":", "\"">> \o Repeat("x", 100) \o <<"\"", "}">>
sNullValue == <<"n", "u", "l", "l">>

\* n bytes in k runs: runs of one byte, then one long run.
RunsOf(k, n) ==
  [i \in 1..n |-> IF (IF i < k THEN i ELSE k) % 2 = 1
                  THEN ByteOf("a") ELSE ByteOf("b")]

PlainContents ==
  {<<>>, ToBytes(sPayload), ToBytes(sTruncated), ToBytes(sLongPayload),
   RunsOf(1, overhead * 4 - 1), RunsOf(1, overhead * 4),
   RunsOf(27, 97), RunsOf(27, 98), RunsOf(40, 96)}

\* Compressed payloads, whole, cut short and with a damaged trailer.
CompressedContents ==
  {GzipWrite(ToBytes(sPayload)), GzipWrite(ToBytes(sTruncated)),
   FlateWrite(ToBytes(sPayload)),
   SubSeq(GzipWrite(ToBytes(sPayload)), 1, 12),
   [GzipWrite(ToBytes(sPayload)) EXCEPT ![Len(GzipWrite(ToBytes(sPayload))) - 7] = (@ + 1) % 256]}

\* The buffers the package makes: the zero rawData, and what
\* rawData.ReadRequest leaves for a body and the request's headers.
Buffers ==
  {ZeroRawData}
    \cup {ReadHeaders([ZeroRawData EXCEPT !.Content = Slice(c)],
                      [contentLength |-> <<>>, contentEncoding |-> ce,
                       contentType |-> "application/json"]) :
            c \in PlainContents \cup CompressedContents,
            ce \in {"", ceIdentity, ceGzip, ceDeflate, "br"}}

\* Accept-Encoding headers: none, one without gzip, gzip, gzip refused.
AcceptEncodings ==
  {<<>>, <<"b", "r">>, <<"g", "z", "i", "p">>,
   <<"g", "z", "i", "p", ";", "q", "=", "0">>}

\* The values a handler responds with: errors, values json.Marshal takes
\* (given by their JSON text) and a value it refuses.
ResponseValues ==
  {[kind |-> "value", text |-> t] : t \in {sPayload, sLongPayload, sNullValue}}
    \cup {[kind |-> "unsupported"]}

ResponseErrors ==
  {BadRequest(<<"invalid value(s) in query string: ", "limit">>),
   New("sql: no rows")}

\* Headers set on the response writer before the payload is written.
PresetHeaders ==
  {EmptyMap,
   [k \in {"Content-Type", "Content-Encoding", "Vary"} |->
      CASE k = "Content-Type" -> <<"text/plain">>
        [] k = "Content-Encoding" -> <<"br">>
        [] OTHER -> <<"Accept-Encoding">>]}

NoOp == [name |-> "none"]

NoFacade ==
  [body |-> [kind |-> "none"], ok |-> TRUE, calls |-> <<>>,
   viaError |-> NoResponse, w |-> NewWriter(EmptyMap), d |-> ZeroRawData,
   dropped |-> NilError, r |-> [acceptEncoding |-> <<>>]]

BufferInit ==
  /\ bpc = "new"
  /\ bdata = ZeroRawData
  /\ bbefore = ZeroRawData
  /\ bop = NoOp
  /\ baccept = <<>>
  /\ bw = NewWriter(EmptyMap)
  /\ fres = NoFacade
  /\ bn = 0

\* var data rawData, or a rawData that ReadRequest has filled.
NewBuffer ==
  /\ bpc = "new"
  /\ bpc' = "buffer"
  /\ bdata' \in Buffers
  /\ bbefore' = ZeroRawData
  /\ UNCHANGED <<bop, baccept, bw, fres, bn>>
  /\ UNCHANGED <<qvars, rvars, wvars, svars>>

\* An operation on the buffer: what it was given, what it left and what it
\* returned.
Operated(name, arg, out) ==
  /\ bpc = "buffer"
  /\ bn < MaxOps
  /\ bn' = bn + 1
  /\ bbefore' = bdata
  /\ bdata' = out.d
  /\ bop' = [name |-> name, arg |-> arg, err |-> out.err]
  /\ UNCHANGED <<bpc, fres>>
  /\ UNCHANGED <<qvars, rvars, wvars, svars>>

DoDecompress ==
  /\ Operated("Decompress", <<>>, Decompress(bdata))
  /\ UNCHANGED <<baccept, bw>>

DoCompressResponse ==
  \E ae \in AcceptEncodings :
    /\ Operated("CompressResponse", ae, CompressResponse(bdata, ae))
    /\ baccept' = ae
    /\ UNCHANGED bw

DoUnmarshalTo ==
  /\ Operated("UnmarshalTo", <<>>, UnmarshalTo(bdata))
  /\ UNCHANGED <<baccept, bw>>

DoMarshalFrom ==
  \E v \in ResponseValues :
    /\ Operated("MarshalFrom", v, MarshalFrom(bdata, v))
    /\ UNCHANGED <<baccept, bw>>

\* data.WriteResponse(w)
DoWriteResponse ==
  \E h \in PresetHeaders, ok \in BOOLEAN :
    LET out == rawDataWriteResponse(bdata, NewWriter(h), ok)
    IN  /\ Operated("WriteResponse", [preset |-> h, ok |-> ok], out)
        /\ bw' = out.w
        /\ UNCHANGED baccept

\* WriteResponse(w, r, body)
WriteResponse ==
  /\ bpc = "new"
  /\ bpc' = "facade"
  /\ \E body \in ResponseValues \cup ResponseErrors,
        r \in WRequests,
        ae \in AcceptEncodings, ok \in BOOLEAN :
       LET rq  == [config |-> r.config, local |-> r.local,
                   traceId |-> r.traceId, acceptEncoding |-> ae]
           out == WriteResponseResult(body, rq, ok)
       IN  fres' = [body |-> body, ok |-> ok, calls |-> out.calls,
                    viaError |-> out.viaError, w |-> out.w, d |-> out.d,
                    dropped |-> out.dropped, r |-> rq]
  /\ UNCHANGED <<bdata, bbefore, bop, baccept, bw, bn>>
  /\ UNCHANGED <<qvars, rvars, wvars, svars>>

BufferNext ==
  \/ NewBuffer
  \/ DoDecompress
  \/ DoCompressResponse
  \/ DoUnmarshalTo
  \/ DoMarshalFrom
  \/ DoWriteResponse
  \/ WriteResponse

(***************************************************************************)
(* The middleware stack (rawdata.go, type Stack).  The Stack values live   *)
(* in a heap: a *Stack is the position of its node, 0 for nil.  A handler  *)
(* is the list of its layers from the outermost one in.                    *)
(***************************************************************************)
\* Longest argument list given to one Use call.
MaxUse == 2

\* Middleware functions: two that call the handler they wrap, one that
\* answers by itself (as those of TestHandler do), and the nil function.
Middlewares == {"middleware1", "middleware2", "answers", "nil"}

\* The handler function at the bottom.
emptyFunc == "emptyFunc"

\* The loop of Use and of (*Stack).Use: a new node for each function that
\* is not nil, on top of stack.  The heap and the *Stack afterwards.
RECURSIVE UseLoop(_, _, _)
UseLoop(h, stack, f) ==
  IF f = <<>> THEN [heap |-> h, stack |-> stack]
  ELSE IF Head(f) # "nil"
  THEN UseLoop(Append(h, [middleware |-> Head(f), previous |-> stack]),
               Len(h) + 1, Tail(f))
  ELSE UseLoop(h, stack, Tail(f))

\* func Use(f ...Middleware) *Stack
Use(h, f) == UseLoop(h, 0, f)

\* func (s *Stack) Use(f ...Middleware) *Stack
StackUse(h, s, f) == UseLoop(h, s, f)

\* The layers put on in the wrong order: each middleware inside what there
\* is so far.
RECURSIVE HandlerInsideOut(_, _, _)
HandlerInsideOut(h, stack, hd) ==
  IF stack = 0 THEN hd
  ELSE IF h[stack].middleware # "nil"
  THEN HandlerInsideOut(h, h[stack].previous, Append(hd, h[stack].middleware))
  ELSE HandlerInsideOut(h, h[stack].previous, hd)

\* func (s *Stack) Handler(h http.Handler) http.Handler: from s back along
\* previous, each middleware that is not nil wraps what there is so far.
RECURSIVE Handler(_, _, _)
Handler(h, stack, hd) ==
  IF stack = 0 THEN hd
  ELSE IF h[stack].middleware # "nil"
  THEN Handler(h, h[stack].previous, <<h[stack].middleware>> \o hd)
  ELSE Handler(h, h[stack].previous, hd)

\* func (s *Stack) HandlerFunc(f) http.Handler
HandlerFunc(h, s, f) == IF s = 0 THEN <<f>> ELSE Handler(h, s, <<f>>)

\* ServeHTTP on a handler: the functions called, in order.
RECURSIVE ServeHTTP(_)
ServeHTTP(hd) ==
  IF hd = <<>> THEN <<>>
  ELSE IF Head(hd) = "answers" THEN <<"answers">>
  ELSE <<Head(hd)>> \o ServeHTTP(Tail(hd))

StackInit ==
  /\ spc = "new"
  /\ heap = <<>>
  /\ stk = 0
  /\ derived = 0
  /\ used = <<>>
  /\ built = <<>>
  /\ rebuilt = <<>>
  /\ served = <<>>

\* s := Use(f...)
DoUse ==
  /\ spc = "new"
  /\ \E f \in SeqsUpTo(Middlewares, MaxUse) :
       LET out == Use(heap, f)
       IN  /\ heap' = out.heap
           /\ stk' = out.stack
           /\ used' = f
  /\ spc' = "stack"
  /\ UNCHANGED <<derived, built, rebuilt, served>>
  /\ UNCHANGED <<qvars, rvars, wvars, bvars>>

\* s := &Stack{}
DoZeroStack ==
  /\ spc = "new"
  /\ heap' = <<[middleware |-> "nil", previous |-> 0]>>
  /\ stk' = 1
  /\ spc' = "stack"
  /\ UNCHANGED <<derived, used, built, rebuilt, served>>
  /\ UNCHANGED <<qvars, rvars, wvars, bvars>>

\* s.HandlerFunc(emptyFunc), or s.Handler(http.HandlerFunc(emptyFunc))
DoHandlerFunc ==
  /\ spc = "stack"
  /\ \/ built' = HandlerFunc(heap, stk, emptyFunc)
     \/ built' = Handler(heap, stk, <<emptyFunc>>)
  /\ spc' = "built"
  /\ UNCHANGED <<heap, stk, derived, used, rebuilt, served>>
  /\ UNCHANGED <<qvars, rvars, wvars, bvars>>

\* s.Use(f...), and the handlers built afterwards from s and from the
\* stack it returned.
DoStackUse ==
  /\ spc = "built"
  /\ \E f \in SeqsUpTo(Middlewares, MaxUse) :
       LET out == StackUse(heap, stk, f)
       IN  /\ heap' = out.heap
           /\ derived' = out.stack
           /\ used' = used \o f
           /\ rebuilt' = HandlerFunc(out.heap, stk, emptyFunc)
  /\ spc' = "used"
  /\ UNCHANGED <<stk, built, served>>
  /\ UNCHANGED <<qvars, rvars, wvars, bvars>>

\* A request served by the handler built from the stack s.Use returned.
DoServeHTTP ==
  /\ spc = "used"
  /\ served' = ServeHTTP(HandlerFunc(heap, derived, emptyFunc))
  /\ spc' = "served"
  /\ UNCHANGED <<heap, stk, derived, used, built, rebuilt>>
  /\ UNCHANGED <<qvars, rvars, wvars, bvars>>

StackNext ==
  \/ DoUse
  \/ DoZeroStack
  \/ DoHandlerFunc
  \/ DoStackUse
  \/ DoServeHTTP

(***************************************************************************)
(* The specifications: one for each part of the package, the other parts   *)
(* at rest.                                                                *)
(***************************************************************************)
Init == QueryInit /\ ReadInit /\ WriteInit /\ BufferInit /\ StackInit

QuerySpec == Init /\ [][QueryNext]_vars

\* maxRequestLen is a package variable: the read is checked for every value
\* of it up to MaxLimit.
ReadSpecInit ==
  /\ QueryInit /\ WriteInit /\ BufferInit /\ StackInit
  /\ ReadIdle
  /\ maxRequestLen \in 1..MaxLimit

ReadSpec == ReadSpecInit /\ [][ReadNext]_vars

\* A Read of the body that can be made is made: the stream answers.
ReadLiveSpec == ReadSpec /\ WF_vars(ReadNext)

WriteSpec == Init /\ [][WriteNext]_vars

BufferSpec == Init /\ [][BufferNext]_vars

StackSpec == Init /\ [][StackNext]_vars

(***************************************************************************)
(* The bounded read: properties.                                           *)
(***************************************************************************)
\* A public 413 PayloadTooLarge error.
IsPayloadTooLarge(err) ==
  /\ err.kind = "error"
  /\ err.publicStatus
  /\ err.status = StatusRequestEntityTooLarge

\* The request declares a length: a Content-Length header that parses as a
\* non-negative integer at or above the limit.
DeclaresTooLarge ==
  LET p == ParseInt(req.contentLength)
  IN  /\ rpc # "idle"
      /\ req.contentLength # <<>>
      /\ p.err = "nil"
      /\ p.n >= 0
      /\ p.n >= maxRequestLen

\* C1: a request whose Content-Length parses as a non-negative integer at
\* or above maxRequestLen is refused at once with a public 413 error, by
\* rawData.ReadRequest and so by the facade: no Read call is made on the
\* body, no byte is taken from it and data.Content stays nil, whatever the
\* body stream is.
C1_DeclaredLengthRefused ==
  DeclaresTooLarge =>
    /\ rpc = "done"
    /\ IsPayloadTooLarge(rret)
    /\ fret = rret
    /\ bodyReads = 0
    /\ bodyTaken = 0
    /\ data.Content.isNil

\* TestReadRequest's case: Content-Length 9999999999 over a body whose
\* every Read fails.
C1_Witness ==
  /\ rpc = "done"
  /\ req.contentLength = sHuge
  /\ bodyData = <<>> /\ bodyTail = "err"
  /\ IsPayloadTooLarge(fret)
  /\ bodyReads = 0

\* The request declares no length and its body, delivered so far and still
\* to come, is longer than the limit or endless.
UndeclaredTooLong ==
  /\ rpc # "idle"
  /\ req.contentLength = <<>>
  /\ (bodyTail = "inf" \/ bodyTaken + Len(bodyData) > maxRequestLen)

\* C2: with no Content-Length header and a body longer than maxRequestLen,
\* endless ones included, rawData.ReadRequest comes to an end, and ends
\* with a public 413 error and data.Content still nil.
C2_UndeclaredTooLongRefused ==
  /\ [](UndeclaredTooLong /\ rpc = "done" =>
          IsPayloadTooLarge(rret) /\ fret = rret /\ data.Content.isNil)
  /\ (UndeclaredTooLong ~> rpc = "done")

\* TestReadRequest's case: an endless body, read up to the limit and refused.
C2_Witness ==
  /\ rpc = "done"
  /\ req.contentLength = <<>>
  /\ bodyTail = "inf"
  /\ bodyTaken = maxRequestLen
  /\ IsPayloadTooLarge(rret)
  /\ data.Content.isNil

(***************************************************************************)
(* The query reader: properties.                                           *)
(***************************************************************************)
\* The accessor of the kind ("Lookup" or "Get") and the type.
Accessor(kind, type, v, name) ==
  CASE kind = "Lookup" /\ type = "int"    -> LookupInt(v, name)
    [] kind = "Get"    /\ type = "int"    -> GetInt(v, name)
    [] kind = "Lookup" /\ type = "bool"   -> LookupBool(v, name)
    [] kind = "Get"    /\ type = "bool"   -> GetBool(v, name)
    [] kind = "Lookup" /\ type = "time"   -> LookupTime(v, name)
    [] kind = "Get"    /\ type = "time"   -> GetTime(v, name)
    [] kind = "Lookup" /\ type = "date"   -> LookupDate(v, name)
    [] kind = "Get"    /\ type = "date"   -> GetDate(v, name)
    [] kind = "Lookup" /\ type = "string" -> LookupString(v, name)
    [] kind = "Get"    /\ type = "string" -> GetString(v, name)

\* What an accessor of the type returns for "nothing": the zero value,
\* with false after it from a Lookup.
ZeroReturn(kind, type) ==
  IF kind = "Lookup"
  THEN CASE type = "int"    -> <<0, FALSE>>
         [] type = "bool"   -> <<FALSE, FALSE>>
         [] type = "time"   -> <<ZeroTime, FALSE>>
         [] type = "date"   -> <<ZeroDate, FALSE>>
         [] type = "string" -> <<<<>>, FALSE>>
  ELSE CASE type = "int"    -> <<0>>
         [] type = "bool"   -> <<FALSE>>
         [] type = "time"   -> <<ZeroTime>>
         [] type = "date"   -> <<ZeroDate>>
         [] type = "string" -> <<<<>>>>

\* How many times the name stands in a message.
Occurrences(text, name) ==
  Cardinality({i \in 1..Len(text) : text[i] = name})

\* The names a message of Err() lists: what follows the opening words,
\* without the commas between.
NamesListed(text) ==
  {text[i] : i \in {j \in 2..Len(text) : j % 2 = 0}}

\* An error of Err(): a public 400 whose message is the opening words and
\* then names with a comma between each two.
IsInvalidValuesError(err) ==
  /\ err.kind = "error"
  /\ err.publicStatus
  /\ err.status = StatusBadRequest
  /\ Len(err.text) >= 2
  /\ err.text[1] = "invalid value(s) in query string: "
  /\ Len(err.text) % 2 = 0
  /\ \A i \in 3..Len(err.text) : i % 2 = 1 => err.text[i] = ","

\* C3: Err() returns nil exactly when invalidParams is empty; otherwise a
\* public 400 whose message lists, with commas between, every name for
\* which an earlier accessor call hit a parse failure.  A failure never
\* changes what later calls return: every call returns what it would
\* return on a Values that has recorded no failure at all.
C3_ErrReportsEveryFailure ==
  /\ errFresh =>
       /\ (errRet.kind = "nil" <=> invalidParams = {})
       /\ (errRet.kind = "nil" <=> failedOnce = {})
       /\ errRet.kind # "nil" =>
            /\ IsInvalidValuesError(errRet)
            /\ NamesListed(errRet.text) = failedOnce
  /\ last.kind # "none" =>
       last.ret = Accessor(last.kind, last.type,
                           [values |-> values, invalidParams |-> {}],
                           last.name).ret

\* Two names failed, a third was then read successfully, and Err() listed
\* the two.
C3_Witness ==
  /\ errFresh
  /\ IsInvalidValuesError(errRet)
  /\ Cardinality(failedOnce) = 2
  /\ last.kind = "Lookup"
  /\ last.ret[2] = TRUE
  /\ last.name \notin failedOnce

\* C4: for a name the query string does not have, Lookup<T> returns the
\* zero value and false, Get<T> returns the zero value, for each of the
\* five types, and the call leaves invalidParams as it was.
C4_AbsentNameIsZero ==
  (last.kind # "none" /\ last.name \notin DOMAIN values) =>
    /\ last.ret = ZeroReturn(last.kind, last.type)
    /\ invalidParams = last.before
    /\ last.name \notin invalidParams

\* An absent name was looked up after another name had been found invalid.
C4_Witness ==
  /\ last.kind = "Lookup"
  /\ last.name \notin DOMAIN values
  /\ last.type = "time"
  /\ invalidParams # {}

FirstValueOnly(name) ==
  [values |-> [values EXCEPT ![name] = <<values[name][1]>>],
   invalidParams |-> last.before]

\* The second URL of TestQuery.
RepeatedQuery ==
  << <<"bool", sOne>>, <<"bool", sZero>>, <<"int", sOne>>, <<"int", sTwo>> >>

\* C6: for a repeated name every accessor reads the first value only: what
\* it returns and what it records are what they would be if the name had
\* that value alone.  On ?bool=1&bool=0&int=1&int=2, GetBool("bool") is
\* true and GetInt("int") is 1.
C6_FirstValueOnly ==
  /\ (last.kind # "none" /\ last.name \in DOMAIN values) =>
       LET r == Accessor(last.kind, last.type, FirstValueOnly(last.name),
                         last.name)
       IN  /\ last.ret = r.ret
           /\ invalidParams = r.v.invalidParams
  /\ (values = ParseQuery(RepeatedQuery) /\ last.kind = "Get") =>
       /\ (last.type = "bool" /\ last.name = "bool" => last.ret = <<TRUE>>)
       /\ (last.type = "int" /\ last.name = "int" => last.ret = <<1>>)

\* GetInt("int") on the query of the test has returned 1.
C6_Witness ==
  /\ values = ParseQuery(RepeatedQuery)
  /\ last.kind = "Get" /\ last.type = "int" /\ last.name = "int"
  /\ last.ret = <<1>>

\* C7, as claimed: after a typed accessor call for a name, the name is in
\* invalidParams whenever at least one of its values does not parse as the
\* type.
C7_AnyValueRecorded ==
  (last.kind # "none" /\ last.name \in DOMAIN values) =>
    ((\E i \in 1..Len(values[last.name]) :
        Rejected(last.type, values[last.name][i]))
       => last.name \in invalidParams)

\* C7, amended: after a typed accessor call for a name, the name is in
\* invalidParams whenever the first of its values does not parse as the
\* type; when the first value parses, the call records nothing, whatever
\* the later values are.
C7_FirstValueRecorded ==
  (last.kind # "none" /\ last.name \in DOMAIN values) =>
    IF Rejected(last.type, values[last.name][1])
    THEN last.name \in invalidParams
    ELSE invalidParams = last.before

\* A name whose first value parses and whose second does not was read, and
\* is not recorded.
C7_Witness ==
  /\ last.kind = "Lookup" /\ last.type = "bool"
  /\ last.name \in DOMAIN values
  /\ Len(values[last.name]) = 2
  /\ ~Rejected("bool", values[last.name][1])
  /\ Rejected("bool", values[last.name][2])
  /\ last.name \notin invalidParams

\* C8: invalidParams only grows: no step removes a name from it, and once
\* Err() has returned an error, every later Err() returns an error that
\* names at least the same parameters.
C8_InvalidParamsOnlyGrows ==
  [][/\ invalidParams \subseteq invalidParams'
     /\ errRet.kind = "error" =>
          /\ errRet'.kind = "error"
          /\ NamesListed(errRet.text) \subseteq NamesListed(errRet'.text)]_vars

\* Err() returned an error, another name failed, and Err() was called again.
C8_Witness ==
  /\ errFresh
  /\ errRet.kind = "error"
  /\ Cardinality(NamesListed(errRet.text)) = 2
  /\ ncalls = 2
  /\ last.before # {}
  /\ last.before # invalidParams

(***************************************************************************)
(* The error writer: properties.                                           *)
(***************************************************************************)
\* The innermost error of what WriteError was given.
RootCause == Cause(ErrOrNoInformation(werr))

\* C9: WriteError writes the root cause's status only if the cause has the
\* public-status method and the status lies in 400..599; in every other
\* case it writes 500.  So every error response has a status in 400..599.
C9_StatusPublicOr500 ==
  wpc = "done" =>
    /\ resp.status =
         IF RootCause.publicStatus /\ RootCause.status \in 400..599
         THEN RootCause.status
         ELSE StatusInternalServerError
    /\ resp.status \in 400..599
    /\ marshalled.StatusCode = resp.status

\* A wrapped error whose cause has the public status 200 was written as 500.
C9_Witness ==
  /\ wpc = "done"
  /\ werr.cause.kind = "error"
  /\ RootCause.publicStatus
  /\ RootCause.status = 200
  /\ resp.status = StatusInternalServerError

\* What an error shows of itself in public: its status, message and code,
\* each if the root cause has the method that makes it public.
PublicFields(err) ==
  LET c == Cause(ErrOrNoInformation(err))
  IN  [hasStatus  |-> c.publicStatus,
       status     |-> IF c.publicStatus THEN c.status ELSE 0,
       hasMessage |-> c.publicMessage,
       message    |-> IF ~c.publicMessage THEN <<>>
                      ELSE IF c.hasMessage THEN c.message ELSE c.text,
       hasCode    |-> c.publicCode,
       code       |-> IF c.publicCode THEN c.code ELSE ""]

Untrusted == ~IsTrusted(ConfigFromRequest(wreq), wreq)

WriteErrorCalls ==
  <<"MarshalContent", "Header.Set", "Header.Set", "Header.Set",
    "WriteHeader", "Write", "ErrorWritten">>

\* How many of them are made when WriteError is at a step.
CallsMadeAt(pc) ==
  CASE pc = "idle" -> 0 [] pc = "marshalled" -> 1 [] pc = "headers" -> 4
    [] pc = "status" -> 5 [] pc = "written" -> 6 [] pc = "done" -> 7

\* C11: WriteError marshals the content, sets the three headers
\* (Content-Type application/json, the exact Content-Length,
\* X-Content-Type-Options nosniff), writes the status, writes the body and
\* only then calls the notifier, once.  The notifier gets the content with
\* the original error, never nil, trusted client or not, and attaching the
\* error changes nothing of what was sent.
C11_NotifiedAfterWrite ==
  /\ [](/\ resp.calls = SubSeq(WriteErrorCalls, 1, CallsMadeAt(wpc))
        /\ (wpc # "done" => notified = ZeroContent)
        /\ (wpc \in {"written", "done"} =>
              /\ resp.headers["Content-Type"] = <<"application/json">>
              /\ resp.headers["Content-Length"] = <<ByteLen(resp.body)>>
              /\ resp.headers["X-Content-Type-Options"] = <<"nosniff">>
              /\ resp.status = marshalled.StatusCode
              /\ resp.body = MarshalContent(ConfigFromRequest(wreq), marshalled))
        /\ (wpc = "done" =>
              /\ notified.Err = ErrOrNoInformation(werr)
              /\ notified.Err.kind = "error"
              /\ notified = [marshalled EXCEPT !.Err = notified.Err]))
  /\ [][wpc = "written" =>
          /\ resp'.body = resp.body
          /\ resp'.status = resp.status
          /\ resp'.headers = resp.headers]_vars

\* An untrusted client was sent a response without the error, and the
\* notifier was then given the error.
C11_Witness ==
  /\ wpc = "done"
  /\ Untrusted
  /\ werr.kind = "error"
  /\ marshalled.Err = NilError
  /\ notified.Err = werr
  /\ resp.body.detail = <<>>

(***************************************************************************)
(* The response facade: properties.                                        *)
(***************************************************************************)
\* WriteResponse called the function.
FacadeCalled(name) == \E i \in 1..Len(fres.calls) : fres.calls[i] = name

\* A stage of WriteResponse failed: the marshalling refused the value, the
\* compression returned an error, or the write did.
MarshalStageFailed == fres.body.kind = "unsupported"
WriteStageFailed == fres.dropped.kind # "nil"

\* One response went out: by WriteError or by the buffer's write, not both.
OneResponse ==
  (fres.viaError.status # 0) # (fres.w.status # 0)

\* C12, as claimed: an error value goes to WriteError and nothing else is
\* written; any other value is marshalled, compressed and written in that
\* order, and the failure of any stage, the write included, is routed
\* through WriteError, with no part of the normal body written.
C12_EveryFailureRouted ==
  bpc = "facade" =>
    /\ (fres.body.kind = "error" =>
          fres.calls = <<"WriteError">> /\ fres.w = NewWriter(EmptyMap))
    /\ (MarshalStageFailed \/ WriteStageFailed =>
          FacadeCalled("WriteError") /\ fres.w.body = <<>>)
    /\ (fres.body.kind = "value" /\ ~WriteStageFailed =>
          ~FacadeCalled("WriteError"))
    /\ OneResponse

\* C12, amended: an error value goes to WriteError and nothing else is
\* written; any other value is marshalled, compressed and written in that
\* order; a failure of the marshalling is routed through WriteError and
\* nothing of the buffer is written; a failure of the final write is
\* dropped: WriteError is not called for it.  One response is produced in
\* every execution, and after a successful write WriteError is not called.
C12_FailureBeforeWriteRouted ==
  bpc = "facade" =>
    /\ (fres.body.kind = "error" =>
          /\ fres.calls = <<"WriteError">>
          /\ fres.viaError = WriteErrorResult(fres.body, fres.r).resp
          /\ fres.w = NewWriter(EmptyMap))
    /\ (MarshalStageFailed =>
          /\ fres.calls = <<"MarshalFrom", "WriteError">>
          /\ fres.viaError.status = StatusInternalServerError
          /\ fres.w = NewWriter(EmptyMap))
    /\ (fres.body.kind = "value" =>
          /\ fres.calls = <<"MarshalFrom", "CompressResponse", "WriteResponse">>
          /\ fres.viaError = NoResponse
          /\ WriteStageFailed = ~fres.ok
          /\ fres.w.body = IF fres.ok THEN fres.d.Content.bytes ELSE <<>>)
    /\ OneResponse

\* The write of a marshalled value failed, and WriteError was not called.
C12_Witness ==
  /\ bpc = "facade"
  /\ fres.body.kind = "value"
  /\ ~fres.ok
  /\ WriteStageFailed
  /\ ~FacadeCalled("WriteError")
  /\ fres.w.status = StatusOK

(***************************************************************************)
(* The payload buffer's operations: properties.                            *)
(***************************************************************************)
sGzip == <<"g", "z", "i", "p">>

\* C13: CompressResponse never compresses a buffer that IsCompressed()
\* already reports as compressed: content, encoding and uncompressedLength
\* (the whole buffer) stay as they were.  So a second CompressResponse,
\* for the same request, leaves any buffer as the first one left it.
C13_CompressedLeftAlone ==
  (bpc = "buffer" /\ bop.name = "CompressResponse") =>
    /\ (IsCompressed(bbefore).ret => bdata = bbefore)
    /\ bop.err = NilError
    /\ CompressResponse(bdata, baccept).d = bdata

\* A buffer marked as gzip, long and repetitive enough to be worth
\* compressing, for a request that accepts gzip: left alone.
C13_Witness ==
  /\ bpc = "buffer" /\ bop.name = "CompressResponse"
  /\ bbefore.ContentEncoding = ceGzip
  /\ bbefore.Content.bytes = RunsOf(1, overhead * 4)
  /\ Contains(baccept, sGzip)
  /\ bdata = bbefore

\* The last operation was data.WriteResponse(w).
Wrote == bpc = "buffer" /\ bop.name = "WriteResponse"

HasHeader(w, key) == key \in DOMAIN w.headers

\* C14: with empty content rawData.WriteResponse writes status 204 with
\* Content-Length 0 and leaves neither a Content-Type nor a
\* Content-Encoding header, whatever type and encoding the buffer holds.
\* With content it sets Content-Type, sets Content-Length to the count of
\* the bytes, sets Content-Encoding exactly when the buffer is compressed,
\* writes the bytes, and returns an error exactly when the write fails.
C14_WriteResponseHeaders ==
  Wrote =>
    IF Len(bbefore.Content.bytes) = 0
    THEN /\ bw.status = StatusNoContent
         /\ bw.headers["Content-Length"] = <<"0">>
         /\ ~HasHeader(bw, "Content-Type")
         /\ ~HasHeader(bw, "Content-Encoding")
         /\ bw.body = <<>>
         /\ bop.err = NilError
    ELSE /\ bw.headers["Content-Type"] = <<bbefore.ContentType>>
         /\ Atoi(bw.headers["Content-Length"]) =
              [err |-> "nil", n |-> Len(bbefore.Content.bytes)]
         /\ HasHeader(bw, "Content-Encoding")
              = (bbefore.ContentEncoding \notin {"", ceIdentity})
         /\ (HasHeader(bw, "Content-Encoding") =>
               bw.headers["Content-Encoding"] = <<bbefore.ContentEncoding>>)
         /\ (bop.arg.ok => bw.body = bbefore.Content.bytes)
         /\ (bop.err.kind = "error") = ~bop.arg.ok

\* An empty buffer marked as gzip-encoded JSON, written to a writer that
\* had a type and an encoding set: 204 and neither header.
C14_Witness ==
  /\ Wrote
  /\ Len(bbefore.Content.bytes) = 0
  /\ bbefore.ContentEncoding = ceGzip
  /\ bbefore.ContentType = "application/json"
  /\ HasHeader(NewWriter(bop.arg.preset), "Content-Type")
  /\ bw.status = StatusNoContent
  /\ ~HasHeader(bw, "Content-Type")

(***************************************************************************)
(* The request facade: properties.                                         *)
(***************************************************************************)
\* A BadRequest error with the message.
IsBadRequest(err, msg) ==
  /\ err.kind = "error"
  /\ err.publicStatus
  /\ err.status = StatusBadRequest
  /\ err.text = <<msg>>

\* What UnmarshalTo has to return for the buffer: the error for a payload
\* that does not decompress, the one for a payload that is not the JSON of
\* the target, or nil.
UnmarshalsAsClaimed(d) ==
  LET dec == Decompress(d)
      out == UnmarshalTo(d).err
  IN  IF dec.err.kind # "nil"
      THEN IsBadRequest(out, "cannot decompress payload")
      ELSE IF Unmarshal(dec.d.Content.bytes) # "nil"
      THEN IsBadRequest(out, "invalid JSON payload")
      ELSE out = NilError

\* C15: UnmarshalTo turns every failure to decompress (damaged or cut data,
\* an encoding that is neither deflate nor gzip) into the BadRequest error
\* "cannot decompress payload" and every failure to decode the JSON into
\* the BadRequest error "invalid JSON payload".  With the read before it,
\* every error the ReadRequest facade returns has the public status 400 or
\* 413.
C15_FacadeErrorsArePublic ==
  /\ rpc = "idle" => \A d \in Buffers : UnmarshalsAsClaimed(d)
  /\ rpc = "done" =>
       /\ fret.kind \in {"nil", "error"}
       /\ (rret.kind = "nil" => UnmarshalsAsClaimed(data))
       /\ (rret.kind = "nil" => fret = UnmarshalTo(data).err)
       /\ (fret.kind = "error" =>
             /\ fret.publicStatus
             /\ fret.status \in {StatusBadRequest, StatusRequestEntityTooLarge})

\* A JSON body cut short was read whole and refused with status 400.
C15_Witness ==
  /\ rpc = "done"
  /\ rret = NilError
  /\ req.contentEncoding = ""
  /\ data.Content.bytes = <<ByteOf("{")>>
  /\ IsBadRequest(fret, "invalid JSON payload")

(***************************************************************************)
(* The middleware stack: properties.                                       *)
(***************************************************************************)
\* The functions of a list that are not nil, in the order of the list.
NonNil(f) == SelectSeq(f, LAMBDA x : x # "nil")

\* The calls a request makes through the layers: each middleware in turn,
\* down to the first one that answers by itself, or to the handler function.
RECURSIVE CallsThrough(_)
CallsThrough(layers) ==
  IF layers = <<>> THEN <<emptyFunc>>
  ELSE IF Head(layers) = "answers" THEN <<"answers">>
  ELSE <<Head(layers)>> \o CallsThrough(Tail(layers))

\* C16: the handler built from a stack has the middleware of the stack as
\* its layers in the order they were added with Use, the first added
\* outermost, with the handler function innermost; nil functions are
\* skipped; a nil stack and an empty one give the bare handler function;
\* s.Use(...) returns a new stack and leaves the handlers built from s as
\* they were.
C16_MiddlewareInOrder ==
  /\ spc \in {"built", "used", "served"} =>
       /\ \E k \in 0..Len(used) :
            built = NonNil(SubSeq(used, 1, k)) \o <<emptyFunc>>
       /\ (stk = 0 => built = <<emptyFunc>>)
       /\ (spc = "built" => built = NonNil(used) \o <<emptyFunc>>)
  /\ spc \in {"used", "served"} =>
       /\ rebuilt = built
       /\ HandlerFunc(heap, derived, emptyFunc) = NonNil(used) \o <<emptyFunc>>
       /\ \A i \in 1..Len(heap) : heap[i].previous < i
  /\ spc = "served" => served = CallsThrough(NonNil(used))

\* Use(middleware1).Use(middleware2), as in TestHandler, served a request:
\* middleware1 ran first, then middleware2, then the handler function.
C16_Witness ==
  /\ spc = "served"
  /\ used = <<"middleware1", "middleware2">>
  /\ built = <<"middleware1", emptyFunc>>
  /\ served = <<"middleware1", "middleware2", emptyFunc>>

(***************************************************************************)
(* Boolean query values (query.go, parseBool).                             *)
(***************************************************************************)
\* The first value of the name the last call asked for, in lower case.
FirstValueFolded == ToLower(values[last.name][1])

BoolCall == last.kind # "none" /\ last.type = "bool" /\ last.name \in DOMAIN values

\* C17: boolean query parsing is case-insensitive: a bool accessor called for
\* a name that is present returns (true, present) when the first value,
\* whatever its case, is one of 1, true, yes, t; (false, present) when it is
\* one of 0, false, no, f, recording nothing in both cases; and for any
\* other first value, the empty string included, returns (false, not
\* present) and records the name in invalidParams.
C17_BoolWords ==
  BoolCall =>
    LET s == FirstValueFolded
        val == last.ret[1]
        present == IF last.kind = "Lookup" THEN last.ret[2] ELSE TRUE
        absent == IF last.kind = "Lookup" THEN ~last.ret[2] ELSE TRUE
    IN  CASE s \in {<<"1">>, <<"t", "r", "u", "e">>, <<"y", "e", "s">>, <<"t">>} ->
               val /\ present /\ invalidParams = last.before
          [] s \in {<<"0">>, <<"f", "a", "l", "s", "e">>, <<"n", "o">>, <<"f">>} ->
               ~val /\ present /\ invalidParams = last.before
          [] OTHER ->
               ~val /\ absent /\ invalidParams = last.before \cup {last.name}

\* LookupBool("flag") on flag=YeS has returned (true, true) and recorded
\* nothing.
C17_Witness ==
  /\ BoolCall /\ last.kind = "Lookup" /\ last.name = "flag"
  /\ values["flag"][1] = <<"Y", "e", "S">>
  /\ last.ret = <<TRUE, TRUE>>
  /\ "flag" \notin invalidParams

(***************************************************************************)
(* The read of a body of undeclared length (rawdata.go, lines 67-87).      *)
(***************************************************************************)
\* rawData.ReadRequest has returned for a request without Content-Length.
UndeclaredDone == rpc = "done" /\ req.contentLength = <<>>

\* Bytes the body stream had to give: those taken and those left, or more
\* than any limit when the stream has no end.
BodyOffered ==
  IF bodyTail = "inf" THEN MaxLimit + 2 ELSE bodyTaken + Len(bodyData)

\* The outcome of the branch, whatever the amount taken from the stream: a
\* failed Read gives BadRequest and is the only way to it; without one, the
\* result is PayloadTooLarge exactly when the amount read reaches
\* maxRequestLen, and a shorter body is accepted whole, with its length as
\* UncompressedLength when the request has no Content-Encoding.
UndeclaredOutcome ==
  /\ \/ IsBadRequest(rret, "cannot read all content")
     \/ IsPayloadTooLarge(rret)
     \/ rret = NilError
  /\ IsBadRequest(rret, "cannot read all content") =>
       bodyTail = "err" /\ bodyData = <<>> /\ data.Content.isNil
  /\ (bodyTail = "err" /\ BodyOffered < maxRequestLen) =>
       IsBadRequest(rret, "cannot read all content")
  /\ ~IsBadRequest(rret, "cannot read all content") =>
       (IsPayloadTooLarge(rret) <=> Len(buf) >= maxRequestLen)
  /\ IsPayloadTooLarge(rret) => data.Content.isNil
  /\ rret = NilError =>
       /\ bodyTail = "eof" /\ bodyData = <<>>
       /\ Len(buf) = bodyTaken /\ bodyTaken < maxRequestLen
       /\ data.Content = Slice(buf)
       /\ req.contentEncoding = "" =>
            /\ data.UncompressedLength = bodyTaken
            /\ data.ContentEncoding = ceIdentity

\* C18, as claimed: with no declared Content-Length the read takes up to
\* maxRequestLen + 1 bytes of the body: unless a Read fails, it takes all
\* of a body that has no more than that, and maxRequestLen + 1 bytes of a
\* longer one; and the outcome is as above.
C18_ReadsUpToOneMore ==
  UndeclaredDone =>
    /\ bodyTaken <= maxRequestLen + 1
    /\ ~IsBadRequest(rret, "cannot read all content") =>
         bodyTaken = Min(BodyOffered, maxRequestLen + 1)
    /\ UndeclaredOutcome

\* C18, amended: with no declared Content-Length the read takes up to
\* maxRequestLen bytes of the body and never one more: unless a Read
\* fails, it takes all of a body shorter than that, and exactly
\* maxRequestLen bytes of any other; a failed Read gives BadRequest, even
\* one that comes with the bytes that fill the limit; otherwise the result
\* is PayloadTooLarge exactly when the amount read reaches maxRequestLen,
\* and a shorter body is accepted with content equal to the whole body and
\* UncompressedLength equal to its length when the request has no
\* Content-Encoding header.
C18_ReadsUpToLimit ==
  /\ (rpc # "idle" /\ req.contentLength = <<>>) => bodyTaken <= maxRequestLen
  /\ UndeclaredDone =>
       /\ ~IsBadRequest(rret, "cannot read all content") =>
            bodyTaken = Min(BodyOffered, maxRequestLen)
       /\ UndeclaredOutcome

\* A body of one byte more than the limit has been refused with its last
\* byte still in the stream.
C18_Witness ==
  /\ UndeclaredDone
  /\ bodyTail = "eof" /\ Len(bodyData) = 1
  /\ bodyTaken = maxRequestLen
  /\ IsPayloadTooLarge(rret)

(***************************************************************************)
(* CompressResponse and Decompress (rawdata.go, lines 120-187).            *)
(***************************************************************************)
\* The last operation on the buffer was CompressResponse.
Compressed == bpc = "buffer" /\ bop.name = "CompressResponse"

\* The buffer with an empty encoding written as identity.
EncodingNamed(d) ==
  [d EXCEPT !.ContentEncoding = IF @ = "" THEN "identity" ELSE @]

\* CompressResponse has put the gzip form in the place of the content: the
\* old content was not compressed and of 96 bytes or more, the request's
\* Accept-Encoding has gzip in it, the new content is a gzip member that
\* reads back as the old content and is shorter than it by more than 24
\* bytes, and uncompressedLength is the old length.
CommittedGzip(old, new) ==
  /\ old.ContentEncoding \in {"", "identity"}
  /\ Len(old.Content.bytes) >= 96
  /\ Contains(baccept, sGzip)
  /\ new.ContentEncoding = "gzip"
  /\ new.ContentType = old.ContentType
  /\ new.UncompressedLength = Len(old.Content.bytes)
  /\ Len(new.Content.bytes) + 24 < Len(old.Content.bytes)
  /\ GzipNewReader(new.Content.bytes) = "nil"
  /\ GzipRead(new.Content.bytes) = [err |-> "nil", bytes |-> old.Content.bytes]

\* C19, as claimed: after any call of CompressResponse the buffer is
\* either unchanged, field for field, or holds the committed gzip form
\* (compressed length + 24 < original length, original length >= 96,
\* encoding gzip, uncompressedLength the old length); the content never
\* grows.
C19_UnchangedOrCommitted ==
  Compressed =>
    /\ bdata = bbefore \/ CommittedGzip(bbefore, bdata)
    /\ Len(bdata.Content.bytes) <= Len(bbefore.Content.bytes)

\* C19, amended: after any call of CompressResponse the buffer is either
\* as it was, but for an empty encoding that the call has rewritten to
\* identity, or holds the committed gzip form (compressed length + 24 <
\* original length, original length >= 96, encoding gzip,
\* uncompressedLength the old length); the content never grows, and the
\* call returns no error.
C19_NamedOrCommitted ==
  Compressed =>
    /\ bdata = EncodingNamed(bbefore) \/ CommittedGzip(bbefore, bdata)
    /\ Len(bdata.Content.bytes) <= Len(bbefore.Content.bytes)
    /\ bop.err = NilError

\* The JSON of a marshalled value (encoding still empty), compressed for a
\* request that accepts gzip: the gzip form has been committed.
C19_Witness ==
  /\ Compressed
  /\ bbefore.ContentEncoding = ""
  /\ bbefore.Content.bytes = ToBytes(sLongPayload)
  /\ bdata.ContentEncoding = ceGzip
  /\ bdata.UncompressedLength = Len(sLongPayload)
  /\ Len(bdata.Content.bytes) + overhead < Len(sLongPayload)

\* The last operation on the buffer was Decompress.
Decompressed == bpc = "buffer" /\ bop.name = "Decompress"

\* What a reader of the encoding makes of the content.
Inflated(d) ==
  IF d.ContentEncoding = "gzip"
  THEN IF GzipNewReader(d.Content.bytes) # "nil"
       THEN [err |-> GzipNewReader(d.Content.bytes), bytes |-> <<>>]
       ELSE GzipRead(d.Content.bytes)
  ELSE FlateCopy(d.Content.bytes)

\* Decompress on a buffer marked deflate or gzip, or with another encoding
\* that is not identity: on success the content is the decompressed bytes,
\* IsCompressed() is false and uncompressedLength is the new length; any
\* other encoding fails; on every failure the buffer is as it was, and
\* still compressed.
DecompressOfCompressed(old, new, err) ==
  /\ old.ContentEncoding \in {"deflate", "gzip"} =>
       IF Inflated(old).err = "nil"
       THEN /\ err = NilError
            /\ new.Content.bytes = Inflated(old).bytes
            /\ ~IsCompressed(new).ret
            /\ new.UncompressedLength = Len(new.Content.bytes)
            /\ new.ContentType = old.ContentType
       ELSE err # NilError
  /\ old.ContentEncoding \notin {"", "identity", "deflate", "gzip"} =>
       err # NilError
  /\ err # NilError =>
       /\ err.kind = "error"
       /\ new = old
       /\ IsCompressed(new).ret

\* C20, as claimed: Decompress is a no-op on a buffer that is not
\* compressed (encoding empty or identity): it returns nil and leaves
\* every field as it was; on the others it does as above.
C20_NoOpOnPlain ==
  Decompressed =>
    /\ bbefore.ContentEncoding \in {"", "identity"} =>
         bop.err = NilError /\ bdata = bbefore
    /\ DecompressOfCompressed(bbefore, bdata, bop.err)

\* C20, amended: on a buffer that is not compressed (encoding empty or
\* identity) Decompress returns nil and changes nothing but an empty
\* encoding, which it rewrites to identity; for encoding deflate or gzip it
\* replaces the content with the decompressed bytes, resets the encoding
\* so that IsCompressed() is false, and sets uncompressedLength to the new
\* length; for any other encoding it fails; on every failure the buffer is
\* left as it was and is still reported as compressed.
C20_NamedOnPlain ==
  Decompressed =>
    /\ bbefore.ContentEncoding \in {"", "identity"} =>
         bop.err = NilError /\ bdata = EncodingNamed(bbefore)
    /\ DecompressOfCompressed(bbefore, bdata, bop.err)

\* The gzip form of TestReadRequest's body has been decompressed: the
\* buffer holds the JSON again and is no longer compressed.
C20_Witness ==
  /\ Decompressed
  /\ bbefore.ContentEncoding = ceGzip
  /\ bbefore.Content.bytes = GzipWrite(ToBytes(sPayload))
  /\ bop.err = NilError
  /\ bdata.Content.bytes = ToBytes(sPayload)
  /\ bdata.ContentEncoding = ""
  /\ bdata.UncompressedLength = Len(sPayload)

(***************************************************************************)
(* The Accept-Encoding test of CompressResponse (rawdata.go, line 161).    *)
(***************************************************************************)
\* The header has the four letters gzip somewhere in it.
HasGzip(ae) == \E i \in 1..(Len(ae) - 3) : SubSeq(ae, i, i + 3) = sGzip

\* WriteResponse(w, r, body) has sent the JSON of a value, not an error.
SentValue == bpc = "facade" /\ FacadeCalled("WriteResponse")

\* C21: CompressResponse skips compression whenever the request's
\* Accept-Encoding header does not contain the substring "gzip", an absent
\* header included, and does for any header that contains it, "gzip;q=0"
\* included, what it does for the header "gzip".  So a response of
\* WriteResponse has Content-Encoding gzip only for a request whose
\* Accept-Encoding contains "gzip", and has no other Content-Encoding; a
\* long repetitive body is sent as gzip to every such request.
C21_GzipBySubstring ==
  /\ Compressed =>
       /\ ~HasGzip(baccept) => bdata = EncodingNamed(bbefore)
       /\ HasGzip(baccept) => bdata = CompressResponse(bbefore, sGzip).d
  /\ bpc = "facade" =>
       /\ ~HasHeader(fres.viaError, "Content-Encoding")
       /\ HasHeader(fres.w, "Content-Encoding") =>
            /\ SentValue
            /\ fres.w.headers["Content-Encoding"] = <<"gzip">>
            /\ HasGzip(fres.r.acceptEncoding)
       /\ (SentValue /\ fres.body.text = sLongPayload) =>
            (HasHeader(fres.w, "Content-Encoding")
               <=> HasGzip(fres.r.acceptEncoding))

\* A long body has been sent as gzip to a request whose Accept-Encoding is
\* "gzip;q=0".
C21_Witness ==
  /\ SentValue
  /\ fres.r.acceptEncoding = <<"g", "z", "i", "p", ";", "q", "=", "0">>
  /\ fres.body.text = sLongPayload
  /\ fres.ok
  /\ fres.w.headers["Content-Encoding"] = <<"gzip">>
  /\ fres.w.body = GzipWrite(ToBytes(sLongPayload))
====
